---- MODULE Spec2Model ----
(***************************************************************************)
(* Verification model of the bb-tools tool contract: the browser-open      *)
(* tool's runTool (examples/browser-plugin.bbplugin/open-in-browser.tool), *)
(* LLMTool.validateInput over the example tools' input schemas, and the    *)
(* result formatters of the browser-open tool.                             *)
(***************************************************************************)
EXTENDS Integers, Sequences, FiniteSets, TLC

VARIABLES
  pc,            \* per call: position inside runTool
  urls,          \* per call: toolInput.urls
  browser,       \* per call: toolInput.browser after defaulting
  idx,           \* per call: 1-based index of the entry the for-loop is at
  finalUrl,      \* per call: the URL the current entry resolved to
  parts,         \* per call: toolResultContentParts
  opensSuccess,  \* per call: opensSuccess
  opensError,    \* per call: opensError
  log,           \* per call: external operations issued, in order
  outcome,       \* per call: how the promise returned by runTool settled
  vTool,         \* the tool whose validateInput was called
  vInput,        \* candidate input handed to validateInput
  vResult,       \* what validateInput did with it
  fInput,        \* resultContent handed to formatLogEntryToolResult
  fDest,         \* destination handed to formatLogEntryToolResult
  fResult,       \* what formatLogEntryToolResult did with it
  sPc,           \* search tool: position of the runTool call
  sInput,        \* search tool: toolInput of the call
  sInvoked,      \* search tool: the search routines the call invoked, in order
  sResult,       \* search tool: how the invoked routine settled
  sOutcome,      \* search tool: how the promise returned by runTool settled
  sText,         \* search tool: result text handed to formatLogEntryToolResult
  sDest,         \* search tool: destination handed to formatLogEntryToolResult
  sEntry,        \* search tool: the entry formatLogEntryToolResult returned
  hFn,           \* formatting helper that was called
  hArg,          \* its arguments
  hOut,          \* the text it returned
  iKey,          \* first formatting call: method, tool, argument, destination
  iEntry,        \* first formatting call: what it returned
  iIdle,         \* first formatting call: no other operation had started
  jKey,          \* latest formatting call: method, tool, argument, destination
  jEntry,        \* latest formatting call: what it returned
  jDone,         \* latest formatting call: the other operations had finished
  self,          \* the browser-open tool instance (this): its fields
  self0,         \* the fields as the constructor set them
  initResult,    \* what the promise returned by init() resolved with
  schemaFirst,   \* what the first read of inputSchema returned
  schemaLast     \* what the latest read of inputSchema returned

runVars == <<pc, urls, browser, idx, finalUrl, parts, opensSuccess, opensError, log, outcome>>
valVars == <<vTool, vInput, vResult>>
fmtVars == <<fInput, fDest, fResult>>
srchVars == <<sPc, sInput, sInvoked, sResult, sOutcome, sText, sDest, sEntry>>
hlpVars == <<hFn, hArg, hOut>>
idemVars == <<iKey, iEntry, iIdle, jKey, jEntry, jDone>>
lifeVars == <<self, self0, initResult, schemaFirst, schemaLast>>
vars == <<runVars, valVars, fmtVars, srchVars, hlpVars, idemVars, lifeVars>>

-----------------------------------------------------------------------------
(* Bounds and program constants *)

\* private readonly maxUrls = 6
maxUrls == 6

\* Longest urls list a host hands to runTool in the model.
MaxLen == 7

\* Most entries of one urls list that are something else than a plain web URL.
MaxOther == 2

\* Longest opensSuccess / opensError list of a result handed to a formatter.
MaxShown == 3

\* Identifiers of runTool calls; MainCalls are the calls of the one-call
\* specification.
CallIds == {1, 2}
MainCalls == {1}

-----------------------------------------------------------------------------
(* The environment: entries of urls, the project, the file system *)

\* An entry of urls is a string; the model keeps what the code can observe of
\* it: whether it carries a scheme (so that `new URL(entry)` succeeds) and
\* what it names.
\*   https://example.com   [scheme |-> "https", target |-> "web"]
\*   file:///etc/passwd    [scheme |-> "file",  target |-> "outside"]
\*   index.html            [scheme |-> "none",  target |-> "inside"]
\*   missing.html          [scheme |-> "none",  target |-> "missing"]
\*   ../outside.html       [scheme |-> "none",  target |-> "outside"]
Entries ==
  { [scheme |-> "https", target |-> "web"],
    [scheme |-> "file",  target |-> "outside"],
    [scheme |-> "none",  target |-> "inside"],
    [scheme |-> "none",  target |-> "missing"],
    [scheme |-> "none",  target |-> "outside"] }

Browsers == {"default", "firefox"}

PlainUrl == [scheme |-> "https", target |-> "web"]

UrlLists ==
  UNION { { us \in [1..n -> Entries] :
              Cardinality({k \in 1..n : us[k] # PlainUrl}) <= MaxOther } :
          n \in 0..MaxLen }

\* What the project editor's containment check answers for a path, once the
\* promise it returns is awaited.
WithinProject(path) == path.target \in {"inside", "missing"}

\* Whether Deno.stat finds a file at the resolved path.
FileExists(path) == path.target \in {"inside", "outside"}

\* Whether a URL that is opened names a local file outside the project root.
LocalOutside(url) == url.scheme = "file" /\ url.target = "outside"

-----------------------------------------------------------------------------
(* JavaScript values as far as the code inspects them *)

JNull == [t |-> "null"]
JUndefined == [t |-> "undefined"]
JBool(b) == [t |-> "boolean", b |-> b]
JNum(n) == [t |-> "number", n |-> n]
JStr(s) == [t |-> "string", s |-> s]
JArr(items) == [t |-> "array", items |-> items]
JObj(fields) == [t |-> "object", fields |-> fields]

\* The typeof operator.
TypeOf(v) ==
  CASE v.t \in {"null", "array", "object", "promise"} -> "object"
    [] OTHER -> v.t

\* Reading a property of null or undefined throws a TypeError; of any other
\* value it yields the property or undefined.
CanRead(v) == v.t \notin {"null", "undefined"}
Get(v, name) ==
  IF v.t = "object" /\ name \in DOMAIN v.fields THEN v.fields[name] ELSE JUndefined

\* The arrays of at most n strings drawn from `texts`.
StringArrays(texts, n) ==
  { JArr(a) : a \in UNION { [1..k -> {JStr(x) : x \in texts}] : k \in 0..n } }

\* projectEditor.isPathWithinProject(path): Promise<boolean>. The call returns
\* a promise object at once; the boolean is only available to an await.
isPathWithinProject(path) == [t |-> "promise", settles |-> WithinProject(path)]

\* ToBoolean of a value in a condition: an object (a promise included) is
\* truthy whatever it would settle to.
Truthy(v) ==
  CASE v.t = "promise"   -> TRUE
    [] v.t = "boolean"   -> v.b
    [] v.t = "object"    -> TRUE
    [] v.t = "array"     -> TRUE
    [] v.t = "null"      -> FALSE
    [] v.t = "undefined" -> FALSE
    [] v.t = "string"    -> v.s # ""
    [] v.t = "number"    -> v.n # 0

-----------------------------------------------------------------------------
(* LLMToolOpenInBrowser: helpers *)

\* isValidUrl: `new URL(urlString)` succeeds exactly for a string that
\* carries a scheme; a bare or relative path makes it throw.
isValidUrl(url) == url.scheme # "none"

\* `file://${absolutePath}` for the path the editor resolved.
FileUrl(path) == [scheme |-> "file", target |-> path.target]

\* The condition of resolveLocalPath's first statement,
\* `!projectEditor.isPathWithinProject(path)`: the call is not awaited.
OutsideCheckFires(path) == ~Truthy(isPathWithinProject(path))

\* Line 245: `urls.length > this.maxUrls`.
TooManyUrlsOffByOne(us) == Len(us) > maxUrls + 1
TooManyUrls(us) == Len(us) > maxUrls

\* Entries of toolResultContentParts.
SuccessText(url, br) == [kind |-> "opened", url |-> url, browser |-> br]
ErrorText(url, msg) == [kind |-> "error", url |-> url, error |-> msg]

\* toolResponse, lines 276-280.
ToolResponseCountsUrls(us, br, errs) ==
  IF Len(errs) = 0
    THEN [form |-> "Successfully opened", count |-> Len(us), browser |-> br]
    ELSE [form |-> "Encountered error(s)", count |-> Len(us), browser |-> "n/a"]
ToolResponse(us, br, errs) ==
  IF Len(errs) = 0
    THEN [form |-> "Successfully opened", count |-> Len(us), browser |-> br]
    ELSE [form |-> "Encountered error(s)", count |-> Len(errs), browser |-> "n/a"]

\* bbResponse, lines 282-287.
BbResponseWithoutErrors(succ, errs) ==
  [data |-> [opensSuccess |-> succ, opensError |-> <<>>]]
BbResponse(succ, errs) ==
  [data |-> [opensSuccess |-> succ,
             opensError |-> [k \in 1..Len(errs) |->
                               [url |-> errs[k].url, error |-> errs[k].error]]]]

\* toolResults of the string-result version, examples/open_in_browser/tool.ts
\* lines 151-154: the success lines, then, if anything failed, a header line
\* and the error lines (the whole joined by newlines).
StringToolResults(succ, errs) ==
  succ \o (IF Len(errs) > 0 THEN <<[kind |-> "header"]>> \o
                                  [k \in 1..Len(errs) |-> ErrorText(errs[k].url, errs[k].error)]
                            ELSE <<>>)

-----------------------------------------------------------------------------
(* State after construction: no call in flight, nothing validated or formatted *)

NoUrl == [scheme |-> "none", target |-> "unset"]
NoValue == [t |-> "unset"]

Init ==
  /\ pc = [c \in CallIds |-> "idle"]
  /\ urls = [c \in CallIds |-> <<>>]
  /\ browser = [c \in CallIds |-> "default"]
  /\ idx = [c \in CallIds |-> 0]
  /\ finalUrl = [c \in CallIds |-> NoUrl]
  /\ parts = [c \in CallIds |-> <<>>]
  /\ opensSuccess = [c \in CallIds |-> <<>>]
  /\ opensError = [c \in CallIds |-> <<>>]
  /\ log = [c \in CallIds |-> <<>>]
  /\ outcome = [c \in CallIds |-> [status |-> "pending"]]
  /\ vTool = "none"
  /\ vInput = NoValue
  /\ vResult = "none"
  /\ fInput = NoValue
  /\ fDest = "none"
  /\ fResult = [status |-> "none"]
  /\ sPc = "idle"
  /\ sInput = NoValue
  /\ sInvoked = <<>>
  /\ sResult = [kind |-> "none"]
  /\ sOutcome = [status |-> "pending"]
  /\ sText = <<>>
  /\ sDest = "none"
  /\ sEntry = [status |-> "none"]
  /\ hFn = "none"
  /\ hArg = <<>>
  /\ hOut = [status |-> "none"]
  /\ iKey = [kind |-> "none"]
  /\ iEntry = [status |-> "none"]
  /\ iIdle = FALSE
  /\ jKey = [kind |-> "none"]
  /\ jEntry = [status |-> "none"]
  /\ jDone = FALSE
  /\ self = NoValue
  /\ self0 = NoValue
  /\ initResult = NoValue
  /\ schemaFirst = NoValue
  /\ schemaLast = NoValue

-----------------------------------------------------------------------------
(* runTool, one action per statement group between suspension points *)

\* One record of log: operation op was issued for entry i with argument url,
\* and it succeeded (ok) or threw.
Issued(i, op, url, ok) == [i |-> i, op |-> op, url |-> url, ok |-> ok]

\* The catch block of the for-loop, lines 265-271: record the error for the
\* current entry and go on to the next entry.
CatchErrorAndBreak(c, msg) ==
  /\ parts' = [parts EXCEPT ![c] = Append(@, ErrorText(urls[c][idx[c]], msg))]
  /\ opensError' = [opensError EXCEPT ![c] = Append(@, [url |-> urls[c][idx[c]], error |-> msg])]
  /\ idx' = [idx EXCEPT ![c] = Len(urls[c]) + 1]
  /\ finalUrl' = [finalUrl EXCEPT ![c] = NoUrl]
  /\ pc' = [pc EXCEPT ![c] = "loop"]
  /\ UNCHANGED <<opensSuccess>>
CatchError(c, msg) ==
  /\ parts' = [parts EXCEPT ![c] = Append(@, ErrorText(urls[c][idx[c]], msg))]
  /\ opensError' = [opensError EXCEPT ![c] = Append(@, [url |-> urls[c][idx[c]], error |-> msg])]
  /\ idx' = [idx EXCEPT ![c] = @ + 1]
  /\ finalUrl' = [finalUrl EXCEPT ![c] = NoUrl]
  /\ pc' = [pc EXCEPT ![c] = "loop"]
  /\ UNCHANGED <<opensSuccess>>

\* The host calls runTool(interaction, toolUse, projectEditor); lines 242-243.
CallWith(c, lists, browsers) ==
  /\ pc[c] = "idle"
  /\ \E us \in lists, br \in browsers :
       /\ urls' = [urls EXCEPT ![c] = us]
       /\ browser' = [browser EXCEPT ![c] = br]
  /\ pc' = [pc EXCEPT ![c] = "check"]
  /\ UNCHANGED <<idx, finalUrl, parts, opensSuccess, opensError, log, outcome>>
  /\ UNCHANGED <<valVars, fmtVars, srchVars, hlpVars, idemVars, lifeVars>>

Call(c) == CallWith(c, UrlLists, Browsers)

\* Lines 245-247: the cap on the number of entries.
CheckCap(c) ==
  /\ pc[c] = "check"
  /\ IF TooManyUrls(urls[c])
       THEN /\ outcome' = [outcome EXCEPT ![c] = [status |-> "rejected", error |-> "Too many URLs"]]
            /\ pc' = [pc EXCEPT ![c] = "done"]
            /\ UNCHANGED idx
       ELSE /\ pc' = [pc EXCEPT ![c] = "loop"]
            /\ idx' = [idx EXCEPT ![c] = 1]
            /\ UNCHANGED outcome
  /\ UNCHANGED <<urls, browser, finalUrl, parts, opensSuccess, opensError, log>>
  /\ UNCHANGED <<valVars, fmtVars, srchVars, hlpVars, idemVars, lifeVars>>

\* Lines 253-258 and 211-213: take the next entry, classify it, and for a
\* local path evaluate the containment condition of resolveLocalPath.
Classify(c) ==
  /\ pc[c] = "loop"
  /\ idx[c] <= Len(urls[c])
  /\ LET url == urls[c][idx[c]] IN
       IF isValidUrl(url)
         THEN /\ finalUrl' = [finalUrl EXCEPT ![c] = url]
              /\ pc' = [pc EXCEPT ![c] = "open"]
              /\ UNCHANGED <<idx, parts, opensSuccess, opensError, log>>
         ELSE /\ log' = [log EXCEPT ![c] = Append(@, Issued(idx[c], "isPathWithinProject", url, TRUE))]
              /\ IF OutsideCheckFires(url)
                   THEN CatchError(c, "outside project root")
                   ELSE /\ pc' = [pc EXCEPT ![c] = "resolve"]
                        /\ UNCHANGED <<idx, finalUrl, parts, opensSuccess, opensError>>
  /\ UNCHANGED <<urls, browser, outcome>>
  /\ UNCHANGED <<valVars, fmtVars, srchVars, hlpVars, idemVars, lifeVars>>

\* Line 216: await projectEditor.resolveProjectFilePath(path). What the
\* editor does with a path outside the project is its own business: it may
\* hand back the absolute path or refuse.
ResolvePath(c) ==
  /\ pc[c] = "resolve"
  /\ \E refuses \in (IF WithinProject(urls[c][idx[c]]) THEN {FALSE} ELSE BOOLEAN) :
       /\ log' = [log EXCEPT ![c] =
                    Append(@, Issued(idx[c], "resolveProjectFilePath", urls[c][idx[c]], ~refuses))]
       /\ IF refuses
            THEN CatchError(c, "editor refused path")
            ELSE /\ pc' = [pc EXCEPT ![c] = "stat"]
                 /\ UNCHANGED <<idx, finalUrl, parts, opensSuccess, opensError>>
  /\ UNCHANGED <<urls, browser, outcome>>
  /\ UNCHANGED <<valVars, fmtVars, srchVars, hlpVars, idemVars, lifeVars>>

\* Lines 217-224: await Deno.stat(absolutePath).
StatFile(c) ==
  /\ pc[c] = "stat"
  /\ log' = [log EXCEPT ![c] =
               Append(@, Issued(idx[c], "stat", urls[c][idx[c]], FileExists(urls[c][idx[c]])))]
  /\ IF FileExists(urls[c][idx[c]])
       THEN /\ finalUrl' = [finalUrl EXCEPT ![c] = FileUrl(urls[c][idx[c]])]
            /\ pc' = [pc EXCEPT ![c] = "open"]
            /\ UNCHANGED <<idx, parts, opensSuccess, opensError>>
       ELSE CatchError(c, "does not exist")
  /\ UNCHANGED <<urls, browser, outcome>>
  /\ UNCHANGED <<valVars, fmtVars, srchVars, hlpVars, idemVars, lifeVars>>

\* Lines 259-264 and 176-197: await this.openUrl(finalUrl, browser). The
\* external open either succeeds or throws.
OpenUrl(c) ==
  /\ pc[c] = "open"
  /\ \E opened \in BOOLEAN :
       /\ log' = [log EXCEPT ![c] = Append(@, Issued(idx[c], "open", finalUrl[c], opened))]
       /\ IF opened
            THEN /\ parts' = [parts EXCEPT ![c] = Append(@, SuccessText(finalUrl[c], browser[c]))]
                 /\ opensSuccess' = [opensSuccess EXCEPT ![c] = Append(@, SuccessText(finalUrl[c], browser[c]))]
                 /\ idx' = [idx EXCEPT ![c] = @ + 1]
                 /\ finalUrl' = [finalUrl EXCEPT ![c] = NoUrl]
                 /\ pc' = [pc EXCEPT ![c] = "loop"]
                 /\ UNCHANGED opensError
            ELSE CatchError(c, "Failed to open URL")
  /\ UNCHANGED <<urls, browser, outcome>>
  /\ UNCHANGED <<valVars, fmtVars, srchVars, hlpVars, idemVars, lifeVars>>

\* A runTool whose result arrays were fields of the instance instead of
\* locals of the call.
ReturnInstanceArrays(c) ==
  /\ pc[c] = "loop"
  /\ idx[c] > Len(urls[c])
  /\ outcome' = [outcome EXCEPT ![c] =
       [status |-> "resolved",
        toolResults |-> parts[1] \o parts[2],
        toolResponse |-> ToolResponse(urls[c], browser[c], opensError[1] \o opensError[2]),
        bbResponse |-> BbResponse(opensSuccess[1] \o opensSuccess[2], opensError[1] \o opensError[2]),
        stringToolResults |-> StringToolResults(opensSuccess[c], opensError[c])]]
  /\ pc' = [pc EXCEPT ![c] = "done"]
  /\ UNCHANGED <<urls, browser, idx, finalUrl, parts, opensSuccess, opensError, log>>
  /\ UNCHANGED <<valVars, fmtVars, srchVars, hlpVars, idemVars, lifeVars>>

\* Lines 274-289: the loop is over; build and return the result. The
\* string-result version of the tool (examples/open_in_browser/tool.ts) runs
\* the same loop with the arrays named results and errors; what it returns as
\* toolResults is kept next to the structured result.
Return(c) ==
  /\ pc[c] = "loop"
  /\ idx[c] > Len(urls[c])
  /\ outcome' = [outcome EXCEPT ![c] =
       [status |-> "resolved",
        toolResults |-> parts[c],
        toolResponse |-> ToolResponse(urls[c], browser[c], opensError[c]),
        bbResponse |-> BbResponse(opensSuccess[c], opensError[c]),
        stringToolResults |-> StringToolResults(opensSuccess[c], opensError[c])]]
  /\ pc' = [pc EXCEPT ![c] = "done"]
  /\ UNCHANGED <<urls, browser, idx, finalUrl, parts, opensSuccess, opensError, log>>
  /\ UNCHANGED <<valVars, fmtVars, srchVars, hlpVars, idemVars, lifeVars>>

Next ==
  \/ \E c \in MainCalls : Call(c)
  \/ \E c \in MainCalls : CheckCap(c)
  \/ \E c \in MainCalls : Classify(c)
  \/ \E c \in MainCalls : ResolvePath(c)
  \/ \E c \in MainCalls : StatFile(c)
  \/ \E c \in MainCalls : OpenUrl(c)
  \/ \E c \in MainCalls : Return(c)

Spec == Init /\ [][Next]_vars

-----------------------------------------------------------------------------
(* LLMTool.validateInput: Ajv over the tool's inputSchema *)

\* LLMToolOpenInBrowser.inputSchema. Descriptions are annotations; the model
\* keeps the keyword and drops the text.
BrowserInputSchemaNoCap ==
  [type |-> "object",
   properties |->
     [urls |-> [type |-> "array", items |-> [type |-> "string"], description |-> "urls"],
      browser |-> [type |-> "string", description |-> "browser", default |-> JStr("default")]],
   required |-> {"urls"}]
BrowserInputSchemaNoRequired ==
  [type |-> "object",
   properties |->
     [urls |-> [type |-> "array", items |-> [type |-> "string"],
                description |-> "urls", maxItems |-> maxUrls],
      browser |-> [type |-> "string", description |-> "browser", default |-> JStr("default")]]]
BrowserInputSchema ==
  [type |-> "object",
   properties |->
     [urls |-> [type |-> "array", items |-> [type |-> "string"],
                description |-> "urls", maxItems |-> maxUrls],
      browser |-> [type |-> "string", description |-> "browser", default |-> JStr("default")]],
   required |-> {"urls"}]

\* SearchProjectTool.inputSchema: no field is required, and the two date
\* fields are plain strings (YYYY-MM-DD is asked for in the description only).
SearchInputSchemaDateFormat ==
  [type |-> "object",
   properties |->
     [contentPattern |-> [type |-> "string", description |-> "contentPattern"],
      caseSensitive |-> [type |-> "boolean", description |-> "caseSensitive", default |-> JBool(FALSE)],
      filePattern |-> [type |-> "string", description |-> "filePattern"],
      dateAfter |-> [type |-> "string", description |-> "dateAfter", format |-> "date"],
      dateBefore |-> [type |-> "string", description |-> "dateBefore", format |-> "date"],
      sizeMin |-> [type |-> "number", description |-> "sizeMin"],
      sizeMax |-> [type |-> "number", description |-> "sizeMax"]]]
SearchInputSchema ==
  [type |-> "object",
   properties |->
     [contentPattern |-> [type |-> "string", description |-> "contentPattern"],
      caseSensitive |-> [type |-> "boolean", description |-> "caseSensitive", default |-> JBool(FALSE)],
      filePattern |-> [type |-> "string", description |-> "filePattern"],
      dateAfter |-> [type |-> "string", description |-> "dateAfter"],
      dateBefore |-> [type |-> "string", description |-> "dateBefore"],
      sizeMin |-> [type |-> "number", description |-> "sizeMin"],
      sizeMax |-> [type |-> "number", description |-> "sizeMax"]]]

Tools == {"browser", "search"}
inputSchema(tool) == IF tool = "browser" THEN BrowserInputSchema ELSE SearchInputSchema

\* new Ajv({ code: { esm: true } }): strict mode is on and no format is
\* registered. ajv.compile throws for a schema that uses a keyword outside
\* the vocabulary or a format that is not registered.
AjvKeywords ==
  {"type", "properties", "required", "items", "maxItems", "description", "default", "format"}
AjvFormats == {}

RECURSIVE AjvCompiles(_)
AjvCompiles(schema) ==
  /\ DOMAIN schema \subseteq AjvKeywords
  /\ "format" \in DOMAIN schema => schema.format \in AjvFormats
  /\ "properties" \in DOMAIN schema =>
       \A name \in DOMAIN schema.properties : AjvCompiles(schema.properties[name])
  /\ "items" \in DOMAIN schema => AjvCompiles(schema.items)

\* The type keyword: null and arrays are not objects.
AjvTypeOk(type, v) ==
  CASE type = "object"  -> v.t = "object"
    [] type = "array"   -> v.t = "array"
    [] type = "string"  -> v.t = "string"
    [] type = "number"  -> v.t = "number"
    [] type = "boolean" -> v.t = "boolean"
    [] OTHER -> FALSE

\* The compiled validator: every keyword of the schema applied to the data;
\* required and properties only constrain objects, items and maxItems only
\* arrays; description and default constrain nothing.
RECURSIVE AjvValid(_, _)
AjvValid(schema, v) ==
  /\ "type" \in DOMAIN schema => AjvTypeOk(schema.type, v)
  /\ ("required" \in DOMAIN schema /\ v.t = "object") =>
       \A name \in schema.required : name \in DOMAIN v.fields
  /\ ("properties" \in DOMAIN schema /\ v.t = "object") =>
       \A name \in DOMAIN schema.properties \cap DOMAIN v.fields :
         AjvValid(schema.properties[name], v.fields[name])
  /\ ("items" \in DOMAIN schema /\ v.t = "array") =>
       \A k \in 1..Len(v.items) : AjvValid(schema.items, v.items[k])
  /\ ("maxItems" \in DOMAIN schema /\ v.t = "array") =>
       Len(v.items) <= schema.maxItems

\* validateInput(input), llm_tool.ts lines 236-240: compile, then validate;
\* nothing is caught.
validateInput(tool, input) ==
  IF ~AjvCompiles(inputSchema(tool)) THEN "throws"
  ELSE IF AjvValid(inputSchema(tool), input) THEN "true"
  ELSE "false"

\* An object with the fields of f that are not Absent.
Absent == [t |-> "absent"]
ObjectOf(f) == JObj([name \in {n \in DOMAIN f : f[n] # Absent} |-> f[name]])

\* Candidate inputs of the browser-open tool: any value for urls (string
\* lists of every length up to MaxLen among them), any value for browser.
UrlsCandidates ==
  {Absent, JNull, JNum(1), JStr("https://example.com"),
   JArr(<<JNum(1)>>), JArr(<<JStr("https://example.com"), JNull>>)}
    \cup StringArrays({"https://example.com"}, MaxLen)
BrowserCandidates ==
  {Absent, JNull, JNum(1), JStr("default"), JStr("firefox"), JArr(<<>>)}
BrowserToolInputs ==
  { ObjectOf([urls |-> u, browser |-> b]) : u \in UrlsCandidates, b \in BrowserCandidates }

\* Candidate inputs of the search tool.
SearchToolInputs ==
  { ObjectOf([filePattern |-> fp, contentPattern |-> cp, caseSensitive |-> cs,
              dateAfter |-> da, sizeMin |-> sm]) :
      fp \in {Absent, JStr("*.ts"), JNum(1)},
      cp \in {Absent, JStr("function")},
      cs \in {Absent, JBool(TRUE), JStr("yes")},
      da \in {Absent, JStr("2024-01-01"), JStr("invalid-date"), JNum(20240101)},
      sm \in {Absent, JNum(1024), JStr("1KB")} }

\* Inputs that are no object at all.
NonObjectInputs ==
  {JNull, JUndefined, JStr("urls"), JNum(0), JBool(TRUE), JArr(<<>>),
   JArr(<<JStr("https://example.com")>>)}

CandidateInputs(tool) ==
  NonObjectInputs \cup (IF tool = "browser" THEN BrowserToolInputs ELSE SearchToolInputs)

\* The host validates a candidate input against a tool's schema.
ValidateInput ==
  /\ \E tool \in Tools : \E input \in CandidateInputs(tool) :
       /\ vTool' = tool
       /\ vInput' = input
       /\ vResult' = validateInput(tool, input)
  /\ UNCHANGED <<runVars, fmtVars, srchVars, hlpVars, idemVars, lifeVars>>

NextValidate == ValidateInput

SpecValidate == Init /\ [][NextValidate]_vars

-----------------------------------------------------------------------------
(* formatLogEntryToolResult of the browser-open tool *)

Destinations == {"console", "browser"}

\* 'data' in v, for a v whose typeof is 'object': the in operator throws a
\* TypeError on null; an array has no own property named data.
HasProperty(v, name) == v.t = "object" /\ name \in DOMAIN v.fields

\* v.length: arrays and strings have one, any other readable value gives
\* undefined.
LengthOf(v) ==
  CASE v.t = "array" -> JNum(Len(v.items))
    [] v.t = "string" -> JNum(Len(v.s))
    [] OTHER -> JUndefined

\* length > 0: undefined compares false.
Positive(v) == v.t = "number" /\ v.n > 0

\* String(v).
RECURSIVE JoinComma(_)
JoinComma(texts) ==
  IF Len(texts) = 0 THEN ""
  ELSE IF Len(texts) = 1 THEN texts[1]
  ELSE texts[1] \o "," \o JoinComma(Tail(texts))

RECURSIVE StringOf(_)
StringOf(v) ==
  CASE v.t = "string" -> v.s
    [] v.t = "null" -> "null"
    [] v.t = "undefined" -> "undefined"
    [] v.t = "number" -> ToString(v.n)
    [] v.t = "boolean" -> (IF v.b THEN "true" ELSE "false")
    [] v.t = "array" ->
         JoinComma([k \in 1..Len(v.items) |->
                      IF v.items[k].t \in {"null", "undefined"} THEN ""
                      ELSE StringOf(v.items[k])])
    [] OTHER -> "[object Object]"

Threw(error) == [status |-> "threw", error |-> error]
Returned(entry) == [status |-> "returned", entry |-> entry]

\* `${openedCount} opened${errorCount > 0 ? `, ${errorCount} failed` : ''}`
SubtitleText(openedCount, errorCount) ==
  StringOf(openedCount) \o " opened" \o
    (IF Positive(errorCount) THEN ", " \o StringOf(errorCount) \o " failed" ELSE "")

\* openedCount > 0 ? `Opened ${openedCount} URL${openedCount === 1 ? '' : 's'}`
\*                 : 'No URLs opened'
PreviewText(openedCount) ==
  IF Positive(openedCount)
    THEN "Opened " \o StringOf(openedCount) \o " URL" \o (IF openedCount = JNum(1) THEN "" ELSE "s")
    ELSE "No URLs opened"

\* The two sections of the content, each present when its list is non-empty.
Sections(data, okHeading, failHeading) ==
  (IF Positive(LengthOf(Get(data, "opensSuccess")))
     THEN <<[status |-> "completed", heading |-> okHeading,
             lines |-> Get(data, "opensSuccess").items]>>
     ELSE <<>>)
  \o
  (IF Positive(LengthOf(Get(data, "opensError")))
     THEN <<[status |-> "failed", heading |-> failHeading,
             lines |-> Get(data, "opensError").items]>>
     ELSE <<>>)

\* The branch taken when bbResponse is an object carrying data. Reading
\* data.opensSuccess throws when data is null or undefined, and reading
\* .length throws when either list is missing.
FormatData(data, styles, okHeading, failHeading) ==
  IF ~CanRead(data) THEN Threw("TypeError")
  ELSE IF ~CanRead(Get(data, "opensSuccess")) THEN Threw("TypeError")
  ELSE IF ~CanRead(Get(data, "opensError")) THEN Threw("TypeError")
  ELSE Returned(
         [title |-> [styles |-> styles, title |-> "Tool Result", name |-> "Open in Browser"],
          subtitle |-> SubtitleText(LengthOf(Get(data, "opensSuccess")),
                                    LengthOf(Get(data, "opensError"))),
          content |-> Sections(data, okHeading, failHeading),
          preview |-> PreviewText(LengthOf(Get(data, "opensSuccess")))])

\* The else branch: log the unexpected shape, return the error-styled entry.
FormatFallback(bbResponse, styles) ==
  Returned(
    [title |-> [styles |-> styles, title |-> "Tool Result", name |-> "Open in Browser"],
     subtitle |-> "Error",
     content |-> <<[status |-> "failed", heading |-> StringOf(bbResponse), lines |-> <<>>]>>,
     preview |-> "Error opening URLs"])

\* if (typeof bbResponse === 'object' && 'data' in bbResponse) { .. } else { .. }
FormatWith(resultContent, styles, okHeading, failHeading) ==
  LET bbResponse == Get(resultContent, "bbResponse") IN
  IF TypeOf(bbResponse) = "object"
    THEN IF bbResponse.t = "null" THEN Threw("TypeError")
         ELSE IF HasProperty(bbResponse, "data")
           THEN FormatData(Get(bbResponse, "data"), styles, okHeading, failHeading)
           ELSE FormatFallback(bbResponse, styles)
    ELSE FormatFallback(bbResponse, styles)

formatLogEntryToolResultConsole(resultContent) ==
  FormatWith(resultContent, "TOOL_STYLES_CONSOLE", "URLs Opened:", "Failed to Open:")

formatLogEntryToolResultBrowser(resultContent) ==
  FormatWith(resultContent, "TOOL_TAGS_BROWSER", "URLs Opened", "Failed to Open")

formatLogEntryToolResult(resultContent, format) ==
  IF format = "console"
    THEN formatLogEntryToolResultConsole(resultContent)
    ELSE formatLogEntryToolResultBrowser(resultContent)

\* Candidate values of bbResponse: the structured response with up to
\* MaxShown lines in each list, and the shapes a host can hand over instead.
ResultLines == StringArrays({"Opened a in default", "Error opening b"}, MaxShown)
BbResponses ==
  { JObj([data |-> JObj([opensSuccess |-> ok, opensError |-> bad])]) :
      ok \in ResultLines, bad \in ResultLines }
  \cup { JObj([data |-> JObj([opensSuccess |-> ok])]) : ok \in ResultLines }
  \cup { JObj([data |-> JNull]), JObj([error |-> JStr("failed")]),
         JStr("Opened 1 URL"), JStr(""), JNull, JUndefined, JNum(0), JBool(FALSE),
         JArr(<<>>), JArr(<<JStr("a"), JStr("b")>>) }
ResultContents ==
  { JObj([toolResults |-> JStr("r"), bbResponse |-> b]) : b \in BbResponses }
    \cup { JObj([toolResults |-> JStr("r")]) }

\* The host formats a tool result for one destination.
FormatResult ==
  /\ \E resultContent \in ResultContents : \E format \in Destinations :
       /\ fInput' = resultContent
       /\ fDest' = format
       /\ fResult' = formatLogEntryToolResult(resultContent, format)
  /\ UNCHANGED <<runVars, valVars, srchVars, hlpVars, idemVars, lifeVars>>

NextFormat == FormatResult

SpecFormat == Init /\ [][NextFormat]_vars

-----------------------------------------------------------------------------
(* SearchProjectTool.runTool and the formatters of its result *)

\* Text is kept as lines, and a line as the pieces it was assembled from, so
\* that split('\n'), includes and startsWith can be computed.
RECURSIVE Text(_)
Text(pieces) == IF Len(pieces) = 0 THEN "" ELSE pieces[1] \o Text(Tail(pieces))

\* array.join(sep) of an array of pieced texts.
RECURSIVE JoinPieces(_, _)
JoinPieces(texts, sep) ==
  IF Len(texts) = 0 THEN <<>>
  ELSE IF Len(texts) = 1 THEN texts[1]
  ELSE texts[1] \o <<sep>> \o JoinPieces(Tail(texts), sep)

\* `x && text`: the text when x is truthy, dropped by filter(Boolean) otherwise.
Keep(cond, pieces) == IF cond THEN <<pieces>> ELSE <<>>

\* const { contentPattern, caseSensitive = false, ... } = input
CaseSensitive(input) ==
  IF Get(input, "caseSensitive") = JUndefined THEN JBool(FALSE) ELSE Get(input, "caseSensitive")

\* searchCriteria: the array of lines 617-625 before the join.
SearchCriteriaList(input) ==
  Keep(Truthy(Get(input, "contentPattern")),
       <<"content pattern \"", StringOf(Get(input, "contentPattern")), "\"">>)
  \o Keep(Truthy(Get(input, "contentPattern")),
          <<IF Truthy(CaseSensitive(input)) THEN "case-sensitive" ELSE "case-insensitive">>)
  \o Keep(Truthy(Get(input, "filePattern")),
          <<"file pattern \"", StringOf(Get(input, "filePattern")), "\"">>)
  \o Keep(Truthy(Get(input, "dateAfter")),
          <<"modified after ", StringOf(Get(input, "dateAfter"))>>)
  \o Keep(Truthy(Get(input, "dateBefore")),
          <<"modified before ", StringOf(Get(input, "dateBefore"))>>)
  \o Keep(Get(input, "sizeMin") # JUndefined,
          <<"minimum size ", StringOf(Get(input, "sizeMin")), " bytes">>)
  \o Keep(Get(input, "sizeMax") # JUndefined,
          <<"maximum size ", StringOf(Get(input, "sizeMax")), " bytes">>)

SearchCriteria(input) == JoinPieces(SearchCriteriaList(input), ", ")

\* The branch of runTool: `if (contentPattern)`.
SearchRoutineAlwaysContent(input) == "searchFilesContent"
SearchRoutine(input) ==
  IF Truthy(Get(input, "contentPattern")) THEN "searchFilesContent" ELSE "searchFilesMetadata"

\* toolResults, split at its newlines. The template starts with the optional
\* 'Error: ...\n\n', then a newline, the count line, a newline, and the
\* optional '\n<files>\n...\n</files>'.
SearchToolResults(input, files, errorMessage) ==
  (IF Truthy(errorMessage)
     THEN << <<"Error:", " " \o StringOf(errorMessage)>>, <<>>, <<>> >>
     ELSE << <<>> >>)
  \o << <<ToString(Len(files)), " files match the search criteria: ">> \o SearchCriteria(input) >>
  \o (IF Len(files) > 0
        THEN << <<>>, <<"<files>">> >> \o [k \in 1..Len(files) |-> <<files[k]>>]
               \o << <<"</files>">> >>
        ELSE << <<>> >>)

SearchToolResponseNoCount(input, files) ==
  "Found files matching the search criteria: " \o Text(SearchCriteria(input))
SearchToolResponse(input, files) ==
  "Found " \o ToString(Len(files)) \o " files matching the search criteria: "
    \o Text(SearchCriteria(input))

SearchBbResponse(input, files) ==
  "BB found " \o ToString(Len(files)) \o " files matching the search criteria: "
    \o Text(SearchCriteria(input))

\* catch (error): `Error searching project: ${error.message}`
SearchErrorMessageBare(message) == message
SearchErrorMessage(message) == "Error searching project: " \o message

\* Inputs of the search tool's runTool: every field absent or present, the
\* string fields also empty.
MaxFiles == 2
SearchRunInputs ==
  { ObjectOf([contentPattern |-> cp, caseSensitive |-> cs, filePattern |-> fp,
              dateAfter |-> da, dateBefore |-> db, sizeMin |-> smin, sizeMax |-> smax]) :
      cp \in {Absent, JStr(""), JStr("function"), JStr("Error:")},
      cs \in {Absent, JBool(TRUE), JBool(FALSE)},
      fp \in {Absent, JStr(""), JStr("*.ts")},
      da \in {Absent, JStr("2024-01-01")},
      db \in {Absent, JStr("2024-12-31")},
      smin \in {Absent, JNum(0), JNum(1024)},
      smax \in {Absent, JNum(2048)} }

\* What a search routine can settle to. Both bodies in the repository are
\* placeholders that resolve to { files: [] }; the model lets a routine
\* resolve to any value of its declared result type
\* ({ files: string[]; errorMessage?: string }) or reject with an Error,
\* which covers the placeholder and any body put in its place.
FileNames == <<"src/file1.ts", "src/file2.ts", "src/file3.ts", "src/file4.ts">>
FileLists == { SubSeq(FileNames, 1, n) : n \in 0..MaxFiles }
SearchSettlements ==
  { [kind |-> "resolved", files |-> fs, errorMessage |-> em] :
      fs \in FileLists, em \in {JUndefined, JStr("permission denied")} }
  \cup { [kind |-> "rejected", message |-> m] : m \in {"invalid regex", "read failed"} }
PlaceholderSettlement == [kind |-> "resolved", files |-> <<>>, errorMessage |-> JUndefined]

\* lines.findIndex((line) => line.includes(piece)), zero-based, -1 when none.
Includes(line, piece) == \E k \in 1..Len(line) : line[k] = piece
StartsWith(line, piece) == Len(line) > 0 /\ line[1] = piece
FindIndex(lines, piece) ==
  IF \E k \in 1..Len(lines) : Includes(lines[k], piece)
    THEN (CHOOSE k \in 1..Len(lines) :
            /\ Includes(lines[k], piece)
            /\ \A j \in 1..(k - 1) : ~Includes(lines[j], piece)) - 1
    ELSE -1

\* Array.prototype.slice(start, end): a negative index counts from the end.
SliceIndex(n, len) ==
  IF n < 0 THEN (IF len + n < 0 THEN 0 ELSE len + n)
  ELSE IF n > len THEN len ELSE n
Slice(lines, start, end) ==
  SubSeq(lines, SliceIndex(start, Len(lines)) + 1, SliceIndex(end, Len(lines)))

SelectLines(lines, piece) == SelectSeq(lines, LAMBDA line : StartsWith(line, piece))

\* TOOL_STYLES_CONSOLE.content.status is a table of functions (running,
\* completed, failed, ...), not a function; TOOL_TAGS.content.status is the
\* function createToolStatus.
JFunction == [t |-> "function"]
ConsoleContentStatus ==
  JObj([running |-> JFunction, completed |-> JFunction, failed |-> JFunction,
        pending |-> JFunction, success |-> JFunction, error |-> JFunction,
        warning |-> JFunction])
BrowserContentStatus == JFunction

\* formatLogEntryToolResult of the search tool, the part both destinations
\* share: the file list is cut out of the lines, errors are looked for, and
\* the status heading is produced by calling content.status(...).
SearchFileList(lines) ==
  Slice(lines, FindIndex(lines, "<files>") + 1, FindIndex(lines, "</files>"))
SearchHasErrors(lines) == \E k \in 1..Len(lines) : Includes(lines[k], "Error:")
SearchErrorLines(lines) == IF SearchHasErrors(lines) THEN SelectLines(lines, "Error:") ELSE <<>>

SearchPreviewFixed(lines) == "Found files"
SearchPreview(lines) ==
  IF SearchHasErrors(lines)
    THEN "Search completed with " \o ToString(Len(SearchErrorLines(lines))) \o " error(s)"
    ELSE "Found " \o ToString(Len(SearchFileList(lines))) \o " files"

FormatSearchWith(lines, styles, status) ==
  IF TypeOf(status) # "function" THEN Threw("TypeError")
  ELSE Returned(
    [title |-> [styles |-> styles, title |-> "Tool Result", name |-> "Search Project"],
     subtitle |-> IF SearchHasErrors(lines) THEN "Search completed with errors"
                  ELSE "Search completed successfully",
     content |-> IF SearchHasErrors(lines)
                   THEN [heading |-> "Errors", items |-> SearchErrorLines(lines)]
                   ELSE [heading |-> "Files Found", items |-> SearchFileList(lines)],
     preview |-> SearchPreview(lines)])

formatSearchResultConsole(lines) ==
  FormatSearchWith(lines, "TOOL_STYLES_CONSOLE", ConsoleContentStatus)
formatSearchResultBrowser(lines) ==
  FormatSearchWith(lines, "TOOL_TAGS_BROWSER", BrowserContentStatus)
formatSearchResult(lines, format) ==
  IF format = "console" THEN formatSearchResultConsole(lines)
  ELSE formatSearchResultBrowser(lines)

\* The result text of the repository's formatting test.
TestResultText ==
  << <<"2", " files match the search criteria: ", "content pattern \"", "function", "\"">>,
     <<"src/file1.ts">>, <<"src/file2.ts">> >>

\* runTool is called with an input.
SearchCall ==
  /\ sPc = "idle"
  /\ \E input \in SearchRunInputs : sInput' = input
  /\ sPc' = "search"
  /\ UNCHANGED <<sInvoked, sResult, sOutcome, sText, sDest, sEntry>>
  /\ UNCHANGED <<runVars, valVars, fmtVars, hlpVars, idemVars, lifeVars>>

\* The branch is taken, the routine is invoked and settles.
SearchInvoke ==
  /\ sPc = "search"
  /\ sInvoked' = Append(sInvoked, SearchRoutine(sInput))
  /\ \E settled \in SearchSettlements : sResult' = settled
  /\ sPc' = "settled"
  /\ UNCHANGED <<sInput, sOutcome, sText, sDest, sEntry>>
  /\ UNCHANGED <<runVars, valVars, fmtVars, hlpVars, idemVars, lifeVars>>

\* The rest of the try block, or the catch block.
SearchReturn ==
  /\ sPc = "settled"
  /\ sOutcome' =
       IF sResult.kind = "rejected"
         THEN [status |-> "rejected", error |-> SearchErrorMessage(sResult.message)]
         ELSE [status |-> "resolved",
               toolResults |-> SearchToolResults(sInput, sResult.files, sResult.errorMessage),
               toolResponse |-> SearchToolResponse(sInput, sResult.files),
               bbResponse |-> SearchBbResponse(sInput, sResult.files)]
  /\ sPc' = "done"
  /\ UNCHANGED <<sInput, sInvoked, sResult, sText, sDest, sEntry>>
  /\ UNCHANGED <<runVars, valVars, fmtVars, hlpVars, idemVars, lifeVars>>

\* The host formats a result text: the toolResults of the finished call, or
\* the text of the formatting test.
SearchFormat ==
  /\ \E text \in {TestResultText} \cup
                 (IF sOutcome.status = "resolved" THEN {sOutcome.toolResults} ELSE {}) :
       \E format \in Destinations :
         /\ sText' = text
         /\ sDest' = format
         /\ sEntry' = formatSearchResult(text, format)
  /\ UNCHANGED <<sPc, sInput, sInvoked, sResult, sOutcome>>
  /\ UNCHANGED <<runVars, valVars, fmtVars, hlpVars, idemVars, lifeVars>>

NextSearch ==
  \/ SearchCall
  \/ SearchInvoke
  \/ SearchReturn
  \/ SearchFormat

SpecSearch == Init /\ [][NextSearch]_vars

-----------------------------------------------------------------------------
(* Formatting helpers: size, formatDuration, formatTimeAgo, formatBoolean *)

\* How far around each boundary the sampled arguments reach.
Near == 2

Around(n) == (n - Near)..(n + Near)

\* A byte count k * 1024^e, kept as mantissa and exponent so that counts
\* beyond 32 bits can be given.
Bytes(k, e) == [k |-> k, e |-> e]
Pow1024 == [i \in 0..3 |-> IF i = 0 THEN 1 ELSE IF i = 1 THEN 1024
                           ELSE IF i = 2 THEN 1048576 ELSE 1073741824]

\* const units = ["B", "KB", "MB", "GB"]
units == <<"B", "KB", "MB", "GB">>

\* size as the loop holds it: k * 1024^e / den (den > 1 only once e = 0).
SizeAtLeast1024(size) ==
  IF size.e > 0 THEN size.k >= 1 ELSE size.k \div size.den >= 1024
DivideBy1024(size) ==
  IF size.e > 0 THEN [size EXCEPT !.e = @ - 1] ELSE [size EXCEPT !.den = @ * 1024]

\* while (size >= 1024 && unit < units.length - 1) { size /= 1024; unit++; }
\* unit is the zero-based index into units.
RECURSIVE SizeLoop(_, _)
SizeLoop(size, unit) ==
  IF SizeAtLeast1024(size) /\ unit < Len(units) - 1
    THEN SizeLoop(DivideBy1024(size), unit + 1)
    ELSE [size |-> size, unit |-> unit]

\* The value rounded to one decimal, half up, as whole part and tenth.
\* With den a power of 1024 above 1, floor((20 rem + den) / (2 den)) is
\* computed on rem and den divided by 1024, which gives the same floor.
TruncatedTenths(rem, den) ==
  IF den = 1 THEN 0
  ELSE (10 * (rem \div 1024) + ((10 * (rem % 1024)) \div 1024)) \div (den \div 1024)
HalfUpTenths(rem, den) ==
  IF den = 1 THEN 0
  ELSE (20 * (rem \div 1024) + (den \div 1024) + ((20 * (rem % 1024)) \div 1024))
         \div (2 * (den \div 1024))
OneDecimal(size) ==
  LET num == size.k * Pow1024[size.e]
      tenths == HalfUpTenths(num % size.den, size.den)
  IN  IF tenths = 10 THEN [whole |-> (num \div size.den) + 1, tenth |-> 0]
      ELSE [whole |-> num \div size.den, tenth |-> tenths]

\* Number.prototype.toFixed(1)
ToFixed1(size) ==
  ToString(OneDecimal(size).whole) \o "." \o ToString(OneDecimal(size).tenth)

\* Intl.NumberFormat("en-US", {minimumFractionDigits: 1, maximumFractionDigits: 1}):
\* the integer part is grouped in threes with commas.
Pad3(n) == IF n < 10 THEN "00" \o ToString(n) ELSE IF n < 100 THEN "0" \o ToString(n) ELSE ToString(n)
RECURSIVE Grouped(_)
Grouped(n) == IF n < 1000 THEN ToString(n) ELSE Grouped(n \div 1000) \o "," \o Pad3(n % 1000)
formatNumber1(size) ==
  Grouped(OneDecimal(size).whole) \o "." \o ToString(OneDecimal(size).tenth)

\* TOOL_STYLES_CONSOLE.content.size(bytes); colors.gray only adds colour.
consoleSize(bytes) ==
  LET r == SizeLoop([k |-> bytes.k, e |-> bytes.e, den |-> 1], 0)
  IN  formatNumber1(r.size) \o " " \o units[r.unit + 1]

\* createToolSize(bytes): the text of the span.
createToolSize(bytes) ==
  LET r == SizeLoop([k |-> bytes.k, e |-> bytes.e, den |-> 1], 0)
  IN  ToFixed1(r.size) \o " " \o units[r.unit + 1]

size(bytes, format) == IF format = "console" THEN consoleSize(bytes) ELSE createToolSize(bytes)

\* TOOL_STYLES_CONSOLE.content.bytes(value, decimals = 1): the loop of size,
\* then formatNumber; colors.blue only adds colour.
consoleBytes(value) ==
  LET r == SizeLoop([k |-> value.k, e |-> value.e, den |-> 1], 0)
  IN  formatNumber1(r.size) \o " " \o units[r.unit + 1]

\* createToolBytes(bytes, decimals = 1): formatNumber of the count itself,
\* followed by ' B'.
createToolBytes(bytes) ==
  formatNumber1([k |-> bytes.k, e |-> bytes.e, den |-> 1]) \o " B"

contentBytes(value, format) ==
  IF format = "console" THEN consoleBytes(value) ELSE createToolBytes(value)

\* formatDuration(ms), Math.floor being the floor of the quotient.
DurationPartsNoModulo(ms) ==
  LET seconds == ms \div 1000
      minutes == seconds \div 60
      hours == minutes \div 60
      days == hours \div 24
  IN  IF days > 0 THEN <<[n |-> days, unit |-> "d"], [n |-> hours, unit |-> "h"]>>
      ELSE IF hours > 0 THEN <<[n |-> hours, unit |-> "h"], [n |-> minutes, unit |-> "m"]>>
      ELSE IF minutes > 0 THEN <<[n |-> minutes, unit |-> "m"], [n |-> seconds, unit |-> "s"]>>
      ELSE <<[n |-> seconds, unit |-> "s"]>>
DurationParts(ms) ==
  LET seconds == ms \div 1000
      minutes == seconds \div 60
      hours == minutes \div 60
      days == hours \div 24
  IN  IF days > 0 THEN <<[n |-> days, unit |-> "d"], [n |-> hours % 24, unit |-> "h"]>>
      ELSE IF hours > 0 THEN <<[n |-> hours, unit |-> "h"], [n |-> minutes % 60, unit |-> "m"]>>
      ELSE IF minutes > 0 THEN <<[n |-> minutes, unit |-> "m"], [n |-> seconds % 60, unit |-> "s"]>>
      ELSE <<[n |-> seconds, unit |-> "s"]>>

\* The template literal: the parts joined by one space.
DurationTextFirstOnly(shown) == ToString(shown[1].n) \o shown[1].unit
DurationText(shown) ==
  IF Len(shown) = 1 THEN ToString(shown[1].n) \o shown[1].unit
  ELSE ToString(shown[1].n) \o shown[1].unit \o " " \o ToString(shown[2].n) \o shown[2].unit

formatDuration(ms) == DurationText(DurationParts(ms))

\* formatTimeAgo(date), diff being now.getTime() - date.getTime().
Ago(n, unit) == ToString(n) \o " " \o unit \o (IF n = 1 THEN "" ELSE "s") \o " ago"
formatTimeAgoNoPlural(diff) ==
  LET minutes == diff \div 60000
      hours == minutes \div 60
      days == hours \div 24
  IN  IF days > 0 THEN ToString(days) \o " day ago"
      ELSE IF hours > 0 THEN ToString(hours) \o " hour ago"
      ELSE IF minutes > 0 THEN ToString(minutes) \o " minute ago"
      ELSE "just now"
formatTimeAgo(diff) ==
  LET minutes == diff \div 60000
      hours == minutes \div 60
      days == hours \div 24
  IN  IF days > 0 THEN Ago(days, "day")
      ELSE IF hours > 0 THEN Ago(hours, "hour")
      ELSE IF minutes > 0 THEN Ago(minutes, "minute")
      ELSE "just now"

\* String.prototype.toUpperCase on the words that occur.
toUpperCase(word) ==
  CASE word \in {"yes", "Yes", "YES"} -> "YES"
    [] word \in {"no", "No", "NO"} -> "NO"
    [] word \in {"enabled", "Enabled", "ENABLED"} -> "ENABLED"
    [] word \in {"disabled", "Disabled", "DISABLED"} -> "DISABLED"
    [] word \in {"included", "Included", "INCLUDED"} -> "INCLUDED"
    [] word \in {"excluded", "Excluded", "EXCLUDED"} -> "EXCLUDED"
    [] word \in {"on", "On", "ON"} -> "ON"
    [] word \in {"off", "Off", "OFF"} -> "OFF"
    [] word \in {"case-sensitive", "CASE-SENSITIVE"} -> "CASE-SENSITIVE"
    [] word \in {"case-insensitive", "CASE-INSENSITIVE"} -> "CASE-INSENSITIVE"
    [] word \in {"active", "ACTIVE"} -> "ACTIVE"
    [] word \in {"", "a", "A"} -> (IF word = "" THEN "" ELSE "A")
    [] word \in {"b", "B"} -> "B"
    [] word \in {"c", "C"} -> "C"

\* A format token is kept as format.split("/"): the words between slashes.
\* formatBoolean compares the token with the three presets first; any other
\* token is split and the selected word upper-cased, and a missing word
\* (undefined) makes toUpperCase throw.
formatBooleanNoPresets(value, format) ==
  LET word == IF value THEN 1 ELSE 2
  IN  IF word \in 1..Len(format)
        THEN [status |-> "returned", text |-> toUpperCase(format[word])]
        ELSE Threw("TypeError")
formatBoolean(value, format) ==
  IF format = <<"yes", "no">>
    THEN [status |-> "returned", text |-> IF value THEN "Yes" ELSE "No"]
  ELSE IF format = <<"enabled", "disabled">>
    THEN [status |-> "returned", text |-> IF value THEN "Enabled" ELSE "Disabled"]
  ELSE IF format = <<"included", "excluded">>
    THEN [status |-> "returned", text |-> IF value THEN "Included" ELSE "Excluded"]
  ELSE LET word == IF value THEN 1 ELSE 2
       IN  IF word \in 1..Len(format)
             THEN [status |-> "returned", text |-> toUpperCase(format[word])]
             ELSE Threw("TypeError")

\* Sampled arguments.
ByteCounts ==
  { Bytes(k, 0) : k \in
      (0..Near) \cup Around(512) \cup Around(1000) \cup Around(1024) \cup Around(1536)
        \cup Around(1048576) \cup Around(1048576 + 52429) \cup Around(1073741824)
        \cup {1023999, 1048575} }
  \cup { Bytes(k, e) : k \in {1, 2, 1000, 1024, 1536}, e \in 1..4 }

Durations ==
  (0..Near) \cup Around(1000) \cup Around(60000) \cup Around(3600000) \cup Around(86400000)
  \cup { d * 86400000 + h * 3600000 + m * 60000 + s * 1000 + 999 :
           d \in {0, 2}, h \in {0, 3, 23}, m \in {0, 45, 59}, s \in {0, 12, 30} }

TimeDiffs == Durations \cup { -1, -60000, -86400001 }

FormatTokens ==
  { <<"yes", "no">>, <<"enabled", "disabled">>, <<"included", "excluded">>,
    <<"on", "off">>, <<"case-sensitive", "case-insensitive">>, <<"Yes", "No">>,
    <<"active">>, <<"a", "b", "c">>, <<"", "b">> }

CallSize ==
  /\ \E bytes \in ByteCounts : \E format \in Destinations :
       /\ hFn' = "size"
       /\ hArg' = [bytes |-> bytes, format |-> format]
       /\ hOut' = [status |-> "returned", text |-> size(bytes, format)]
  /\ UNCHANGED <<runVars, valVars, fmtVars, srchVars, idemVars, lifeVars>>

\* Counts handed to the bytes helpers: the sampled counts below 2^31.
PlainByteCounts == { b \in ByteCounts : b.e = 0 }

CallBytes ==
  /\ \E value \in PlainByteCounts : \E format \in Destinations :
       /\ hFn' = "bytes"
       /\ hArg' = [bytes |-> value, format |-> format]
       /\ hOut' = [status |-> "returned", text |-> contentBytes(value, format)]
  /\ UNCHANGED <<runVars, valVars, fmtVars, srchVars, idemVars, lifeVars>>

CallDuration ==
  /\ \E ms \in Durations :
       /\ hFn' = "formatDuration"
       /\ hArg' = [ms |-> ms]
       /\ hOut' = [status |-> "returned", text |-> formatDuration(ms),
                   parts |-> DurationParts(ms)]
  /\ UNCHANGED <<runVars, valVars, fmtVars, srchVars, idemVars, lifeVars>>

CallTimeAgo ==
  /\ \E diff \in TimeDiffs :
       /\ hFn' = "formatTimeAgo"
       /\ hArg' = [diff |-> diff]
       /\ hOut' = [status |-> "returned", text |-> formatTimeAgo(diff)]
  /\ UNCHANGED <<runVars, valVars, fmtVars, srchVars, idemVars, lifeVars>>

CallBoolean ==
  /\ \E value \in BOOLEAN : \E format \in FormatTokens :
       /\ hFn' = "formatBoolean"
       /\ hArg' = [value |-> value, format |-> format]
       /\ hOut' = formatBoolean(value, format)
  /\ UNCHANGED <<runVars, valVars, fmtVars, srchVars, idemVars, lifeVars>>

NextHelpers ==
  \/ CallSize
  \/ CallBytes
  \/ CallDuration
  \/ CallTimeAgo
  \/ CallBoolean

SpecHelpers == Init /\ [][NextHelpers]_vars

-----------------------------------------------------------------------------
(* formatLogEntryToolUse, and formatting calls among the other operations *)

StylesOf(format) == IF format = "console" THEN "TOOL_STYLES_CONSOLE" ELSE "TOOL_TAGS_BROWSER"

\* formatLogEntryToolUse of the browser-open tool, either destination:
\* const { urls, browser = 'default' } = toolInput; urls.map throws when
\* urls is no array.
formatBrowserToolUse(toolInput, format) ==
  LET us == Get(toolInput, "urls")
      br == IF Get(toolInput, "browser") = JUndefined THEN JStr("default")
            ELSE Get(toolInput, "browser")
  IN  IF us.t # "array" THEN Threw("TypeError")
      ELSE Returned(
        [title |-> [styles |-> StylesOf(format), title |-> "Tool Use",
                    name |-> "Open in Browser"],
         subtitle |-> "Opening URLs in browser...",
         content |-> [label |-> "URLs to Open",
                      items |-> [k \in 1..Len(us.items) |-> StringOf(us.items[k])],
                      browser |-> StringOf(br)],
         preview |-> "Opening " \o ToString(Len(us.items)) \o " URL(s) in "
                       \o (IF br # JStr("default") THEN StringOf(br) ELSE "default browser")])

\* content.date: the console renders new Date(value).toLocaleString(), a
\* fixed function of the value for the locale of the process; the browser
\* tag shows the text as given.
DateText(value, format) ==
  IF format = "console" THEN "toLocaleString(" \o value \o ")" ELSE value

\* caseSensitive ?? false
OrFalse(v) == IF v.t \in {"undefined", "null"} THEN FALSE ELSE v.b

\* formatLogEntryToolUse of the search tool, either destination: one
\* criterion for each truthy string field and each size that is not
\* undefined.
SearchUseCriteria(input, format) ==
  Keep(Truthy(Get(input, "contentPattern")),
       "Content pattern: " \o StringOf(Get(input, "contentPattern")) \o " "
         \o formatBoolean(OrFalse(Get(input, "caseSensitive")),
                          <<"case-sensitive", "case-insensitive">>).text)
  \o Keep(Truthy(Get(input, "filePattern")),
          "File pattern: " \o StringOf(Get(input, "filePattern")))
  \o Keep(Truthy(Get(input, "dateAfter")),
          "Modified after: " \o DateText(StringOf(Get(input, "dateAfter")), format))
  \o Keep(Truthy(Get(input, "dateBefore")),
          "Modified before: " \o DateText(StringOf(Get(input, "dateBefore")), format))
  \o Keep(Get(input, "sizeMin") # JUndefined,
          "Minimum size: " \o size(Bytes(Get(input, "sizeMin").n, 0), format))
  \o Keep(Get(input, "sizeMax") # JUndefined,
          "Maximum size: " \o size(Bytes(Get(input, "sizeMax").n, 0), format))

formatSearchToolUse(toolInput, format) ==
  Returned(
    [title |-> [styles |-> StylesOf(format), title |-> "Tool Use", name |-> "Search Project"],
     subtitle |-> "Searching project files...",
     content |-> [label |-> "Search Parameters", items |-> SearchUseCriteria(toolInput, format)],
     preview |-> "Searching project files with specified criteria"])

\* A formatting call: the method, the tool, the argument and the destination.
FormatKey(kind, tool, arg, format) ==
  [kind |-> kind, tool |-> tool, arg |-> arg, format |-> format]
NoKey == [kind |-> "none"]
TextArg(lines) == [t |-> "text", lines |-> lines]

\* The tool's method, dispatching on the destination.
FormatEntryLeaky(key) ==
  [status |-> "returned", entry |-> [preview |-> vResult]]
FormatEntry(key) ==
  IF key.tool = "browser"
    THEN IF key.kind = "use" THEN formatBrowserToolUse(key.arg, key.format)
         ELSE formatLogEntryToolResult(key.arg, key.format)
    ELSE IF key.kind = "use" THEN formatSearchToolUse(key.arg, key.format)
         ELSE formatSearchResult(key.arg.lines, key.format)

\* Arguments of the formatting calls.
BrowserUseArg ==
  JObj([urls |-> JArr(<<JStr("https://example.com"), JStr("docs/index.html")>>),
        browser |-> JStr("firefox")])
BrowserResultArg ==
  JObj([toolResults |-> JStr("r"),
        bbResponse |-> JObj([data |-> JObj([opensSuccess |-> JArr(<<JStr("Opened a in default")>>),
                                            opensError |-> JArr(<<>>)])])])
SearchUseArg ==
  JObj([contentPattern |-> JStr("function"), caseSensitive |-> JBool(TRUE),
        dateAfter |-> JStr("2024-01-01"), sizeMin |-> JNum(1536)])
SearchResultArg ==
  TextArg(SearchToolResults(JObj([filePattern |-> JStr("*.ts")]),
                            <<"src/file1.ts">>, JUndefined))
FormatKeys ==
  { FormatKey("use", "browser", BrowserUseArg, f) : f \in Destinations }
  \cup { FormatKey("result", "browser", BrowserResultArg, f) : f \in Destinations }
  \cup { FormatKey("use", "search", SearchUseArg, f) : f \in Destinations }
  \cup { FormatKey("result", "search", SearchResultArg, f) : f \in Destinations }

\* Whether the other operations of the tools have not started, or are over.
OthersIdle == pc[1] = "idle" /\ sPc = "idle" /\ vResult = "none"
OthersDone == pc[1] = "done" /\ sPc = "done" /\ vResult # "none"

\* The host formats a tool use or a tool result.
FormatAny ==
  /\ \E key \in FormatKeys :
       /\ jKey' = key
       /\ jEntry' = FormatEntry(key)
       /\ jDone' = OthersDone
       /\ IF iKey = NoKey
            THEN /\ iKey' = key
                 /\ iEntry' = FormatEntry(key)
                 /\ iIdle' = OthersIdle
            ELSE UNCHANGED <<iKey, iEntry, iIdle>>
  /\ UNCHANGED <<runVars, valVars, fmtVars, srchVars, hlpVars, lifeVars>>

\* The other operations, on a few inputs each.
FewUrlLists == { <<PlainUrl>>, <<[scheme |-> "none", target |-> "inside"]>> }
FewInputs == { JObj([urls |-> JArr(<<JStr("https://example.com")>>)]) }
FewSettlements == { PlaceholderSettlement }

CallFew == CallWith(1, FewUrlLists, {"default"})
ValidateFew == ValidateInput /\ vTool' = "browser" /\ vInput' \in FewInputs
SearchCallFew == SearchCall /\ sInput' = JObj([filePattern |-> JStr("*.ts")])
SearchInvokeFew == SearchInvoke /\ sResult' \in FewSettlements

NextFormatAmongOthers ==
  \/ FormatAny
  \/ ValidateFew
  \/ CallFew
  \/ CheckCap(1)
  \/ Classify(1)
  \/ ResolvePath(1)
  \/ StatFile(1)
  \/ OpenUrl(1)
  \/ Return(1)
  \/ SearchCallFew
  \/ SearchInvokeFew
  \/ SearchReturn

SpecFormatAmongOthers == Init /\ [][NextFormatAmongOthers]_vars

-----------------------------------------------------------------------------
(* The lifetime of one browser-open tool instance *)

\* new LLMToolOpenInBrowser(name, description, toolConfig, features): the
\* constructor's parameter properties and the two private fields of the
\* subclass. toolConfig is kept as the set of its keys and features as the
\* set of flags that are on; features defaults to {}.
predefinedBrowsers == <<"chrome", "brave", "firefox", "edge", "safari">>
NewTool(name, description, toolConfig, features) ==
  [name |-> name, description |-> description, toolConfig |-> toolConfig,
   features |-> features, predefinedBrowsers |-> predefinedBrowsers, maxUrls |-> maxUrls]
ConstructedTools ==
  { NewTool("open_in_browser", "Open URLs in a web browser", {}, {}),
    NewTool("browser", "Open URLs", {"timeout"}, {"requiresNetwork"}) }

\* get inputSchema(): a fresh object built from this.maxUrls (and, in the
\* description texts, this.predefinedBrowsers) on every read.
inputSchemaReadingLog(t) ==
  [BrowserInputSchema EXCEPT !.properties.urls.maxItems = t.maxUrls + Len(log[1])]
inputSchemaOf(t) ==
  [type |-> "object",
   properties |->
     [urls |-> [type |-> "array", items |-> [type |-> "string"],
                description |-> "urls", maxItems |-> t.maxUrls],
      browser |-> [type |-> "string", description |-> "browser", default |-> JStr("default")]],
   required |-> {"urls"}]

Constructed == self # NoValue

Construct ==
  /\ ~Constructed
  /\ self' \in ConstructedTools
  /\ self0' = self'
  /\ UNCHANGED <<initResult, schemaFirst, schemaLast>>
  /\ UNCHANGED <<runVars, valVars, fmtVars, srchVars, hlpVars, idemVars>>

\* init(): return this.
ToolInit ==
  /\ Constructed
  /\ initResult' = self
  /\ UNCHANGED <<self, self0, schemaFirst, schemaLast>>
  /\ UNCHANGED <<runVars, valVars, fmtVars, srchVars, hlpVars, idemVars>>

\* The host reads tool.inputSchema.
ReadSchema ==
  /\ Constructed
  /\ schemaLast' = inputSchemaOf(self)
  /\ schemaFirst' = IF schemaFirst = NoValue THEN inputSchemaOf(self) ELSE schemaFirst
  /\ UNCHANGED <<self, self0, initResult>>
  /\ UNCHANGED <<runVars, valVars, fmtVars, srchVars, hlpVars, idemVars>>

\* The other operations on the constructed instance.
ValidateOnInstance == Constructed /\ ValidateFew
CallOnInstance == Constructed /\ CallFew
FormatOnInstance ==
  /\ Constructed
  /\ FormatAny
  /\ jKey'.tool = "browser"
  /\ jKey'.format = "console"

NextLifetime ==
  \/ Construct
  \/ ToolInit
  \/ ReadSchema
  \/ ValidateOnInstance
  \/ CallOnInstance
  \/ CheckCap(1)
  \/ Classify(1)
  \/ ResolvePath(1)
  \/ StatFile(1)
  \/ OpenUrl(1)
  \/ Return(1)
  \/ FormatOnInstance

SpecLifetime == Init /\ [][NextLifetime]_vars

-----------------------------------------------------------------------------
(* One input validated and then run *)

\* Inputs whose urls is a list of strings, of every length up to MaxLen, and
\* whose browser is absent or a string.
StringListInputs ==
  { ObjectOf([urls |-> u, browser |-> b]) :
      u \in StringArrays({"https://example.com"}, MaxLen),
      b \in {Absent, JStr("default"), JStr("firefox")} }

\* toolUse.toolInput as runTool destructures it: the entries of urls, and
\* browser = 'default' when the field is undefined.
EntriesOf(input) == [k \in 1..Len(input.fields.urls.items) |-> PlainUrl]
BrowserOf(input) ==
  IF "browser" \in DOMAIN input.fields THEN input.fields.browser.s ELSE "default"

\* The host validates an input of the browser-open tool.
ValidateStringList ==
  /\ vResult = "none"
  /\ ValidateInput
  /\ vTool' = "browser"
  /\ vInput' \in StringListInputs

\* The host hands the input it validated to runTool, whatever validateInput
\* answered: runTool does not consult validateInput.
CallValidated ==
  /\ vResult # "none"
  /\ CallWith(1, {EntriesOf(vInput)}, {BrowserOf(vInput)})

NextValidateThenRun ==
  \/ ValidateStringList
  \/ CallValidated
  \/ CheckCap(1)
  \/ Classify(1)
  \/ OpenUrl(1)
  \/ Return(1)

SpecValidateThenRun == Init /\ [][NextValidateThenRun]_vars

-----------------------------------------------------------------------------
(* Two runTool calls on one instance, the second issued while the first is
   suspended *)

\* The inputs of the two calls share no entry and no browser.
FirstCallLists ==
  UNION { [1..n -> {PlainUrl, [scheme |-> "none", target |-> "inside"]}] : n \in 1..2 }
SecondCallLists ==
  UNION { [1..n -> {[scheme |-> "file", target |-> "outside"],
                    [scheme |-> "none", target |-> "missing"]}] : n \in 1..2 }

\* The suspension points of runTool: the awaits of resolveProjectFilePath,
\* Deno.stat and open.
Suspended(c) == pc[c] \in {"resolve", "stat", "open"}

CallFirst == CallWith(1, FirstCallLists, {"default"})
CallSecond == Suspended(1) /\ CallWith(2, SecondCallLists, {"firefox"})

NextTwoCalls ==
  \/ CallFirst
  \/ CallSecond
  \/ \E c \in CallIds : CheckCap(c)
  \/ \E c \in CallIds : Classify(c)
  \/ \E c \in CallIds : ResolvePath(c)
  \/ \E c \in CallIds : StatFile(c)
  \/ \E c \in CallIds : OpenUrl(c)
  \/ \E c \in CallIds : Return(c)

SpecTwoCalls == Init /\ [][NextTwoCalls]_vars

-----------------------------------------------------------------------------
(* The string-result version of the browser-open tool
   (examples/open_in_browser): its result text and console formatter *)

\* The word a line of toolResults starts with. A success line is the text
\* openUrl returns ('Successfully sent command to open ...'); the header is
\* 'Errors encountered:'; an error line is the bare error.message: 'Failed to
\* open URL ...', 'Path ... is outside project root', 'File ... does not
\* exist', or the project editor's own message.
LeadingWord(item) ==
  CASE item.kind = "opened" -> "Successfully"
    [] item.kind = "header" -> "Errors"
    [] item.kind = "blank"  -> ""
    [] item.kind = "error"  ->
         (CASE item.error = "Failed to open URL"   -> "Failed"
            [] item.error = "outside project root" -> "Path"
            [] item.error = "does not exist"       -> "File"
            [] OTHER                                -> "Cannot")

\* content.split('\n') of [...results, '\nErrors encountered:', ...errors]
\* .join('\n'): the newline in front of the header makes an empty line; an
\* empty array gives the empty text, which splits into one empty line.
RECURSIVE StringResultLines(_)
StringResultLines(items) ==
  IF Len(items) = 0 THEN <<>>
  ELSE (IF items[1].kind = "header" THEN <<[kind |-> "blank"], items[1]>> ELSE <<items[1]>>)
         \o StringResultLines(Tail(items))
SplitStringResult(items) ==
  IF Len(items) = 0 THEN <<[kind |-> "blank"]>> ELSE StringResultLines(items)

\* line.startsWith('Successfully'), line.startsWith('Error')
StartsWithSuccessfully(line) == LeadingWord(line) = "Successfully"
StartsWithError(line) == LeadingWord(line) \in {"Error", "Errors"}

\* TOOL_STYLES_CONSOLE.content has no member named success or error (both
\* exist under TOOL_STYLES_CONSOLE.status and content.status only).
ConsoleContent(name) ==
  CASE name = "status" -> ConsoleContentStatus
    [] name \in {"title", "subtitle", "url", "filename"} -> JFunction
    [] OTHER -> JUndefined

\* formatLogEntryToolResult, examples/open_in_browser/formatter.console.ts
\* lines 31-69, with the members of the styles table it calls.
FormatStringResultWith(lines, content) ==
  LET hasErrors == \E k \in 1..Len(lines) : lines[k].kind = "header"
      results == SelectSeq(lines, StartsWithSuccessfully)
      errors == SelectSeq(lines, StartsWithError)
  IN  IF Len(results) > 0 /\ TypeOf(content["success"]) # "function" THEN Threw("TypeError")
      ELSE IF Len(errors) > 0 /\ TypeOf(content["error"]) # "function" THEN Threw("TypeError")
      ELSE IF Len(results) + Len(errors) > 0 /\ TypeOf(content["status"]) # "function"
        THEN Threw("TypeError")
      ELSE Returned(
        [title |-> [styles |-> "TOOL_STYLES_CONSOLE", title |-> "Tool Result",
                    name |-> "Open in Browser"],
         subtitle |-> IF hasErrors THEN "Some errors occurred" ELSE "URLs opened successfully",
         content |-> [results |-> results, errors |-> errors],
         preview |-> IF hasErrors
                       THEN "Encountered " \o ToString(Len(errors)) \o " error(s) while opening URLs"
                       ELSE "Successfully opened " \o ToString(Len(results)) \o " URL(s)"])

formatStringResultConsole(items) ==
  FormatStringResultWith(SplitStringResult(items),
                         [name \in {"success", "error", "status"} |-> ConsoleContent(name)])

\* The host runs the tool on a short list and formats the toolResults text
\* of the finished call for the console.
StringRunLists ==
  UNION { [1..n -> {PlainUrl, [scheme |-> "none", target |-> "missing"]}] : n \in 0..3 }
CallStringVersion == CallWith(1, StringRunLists, {"default"})
FormatStringResult ==
  /\ pc[1] = "done"
  /\ outcome[1].status = "resolved"
  /\ fInput' = TextArg(outcome[1].stringToolResults)
  /\ fDest' = "console"
  /\ fResult' = formatStringResultConsole(outcome[1].stringToolResults)
  /\ UNCHANGED <<runVars, valVars, srchVars, hlpVars, idemVars, lifeVars>>

NextStringResult ==
  \/ CallStringVersion
  \/ CheckCap(1)
  \/ Classify(1)
  \/ ResolvePath(1)
  \/ StatFile(1)
  \/ OpenUrl(1)
  \/ Return(1)
  \/ FormatStringResult

SpecStringResult == Init /\ [][NextStringResult]_vars

-----------------------------------------------------------------------------
(* What the log says happened to entry i of call c *)

Attempted(c, i) == \E k \in 1..Len(log[c]) : log[c][k].i = i
EntryFailed(c, i) == \E k \in 1..Len(log[c]) : log[c][k].i = i /\ ~log[c][k].ok
EntryOpened(c, i) ==
  \E k \in 1..Len(log[c]) : log[c][k].i = i /\ log[c][k].op = "open" /\ log[c][k].ok
OpenFailed(c, i) ==
  \E k \in 1..Len(log[c]) : log[c][k].i = i /\ log[c][k].op = "open" /\ ~log[c][k].ok

\* A urls entry that is a local path (no scheme) rather than a URL.
IsLocalPath(u) == u.scheme = "none"

-----------------------------------------------------------------------------
(* Claims *)

\* C1: for every local-path entry p for which isPathWithinProject(p) answers
\* false, neither resolveProjectFilePath nor the file stat nor the browser
\* open is issued for p, and the entry ends with the error 'Path p is outside
\* project root'.
C1_OutsidePathAbortsFirst ==
  \A c \in CallIds :
    /\ \A k \in 1..Len(log[c]) :
         (IsLocalPath(urls[c][log[c][k].i]) /\ ~WithinProject(urls[c][log[c][k].i]))
           => log[c][k].op \notin {"resolveProjectFilePath", "stat", "open"}
    /\ \A i \in 1..Len(parts[c]) :
         (IsLocalPath(urls[c][i]) /\ ~WithinProject(urls[c][i]))
           => parts[c][i] = ErrorText(urls[c][i], "outside project root")

\* C2: a call with more than 6 entries is rejected with 'Too many URLs' and
\* nothing at all is done for any entry: no containment query, no path
\* resolution, no stat, no open, no per-item result.
C2_TooManyFailsFast ==
  \A c \in CallIds :
    (Len(urls[c]) > maxUrls /\ pc[c] \notin {"idle", "check"})
      => /\ pc[c] = "done"
         /\ outcome[c] = [status |-> "rejected", error |-> "Too many URLs"]
         /\ log[c] = <<>>
         /\ parts[c] = <<>>
         /\ opensSuccess[c] = <<>>
         /\ opensError[c] = <<>>

\* A call with more than 6 entries has been rejected.
C2_Witness ==
  /\ Len(urls[1]) > maxUrls
  /\ pc[1] = "done"
  /\ outcome[1].status = "rejected"

\* C3: a call within the cap whose urls contain a local path outside the
\* project root, or a local path naming a file that does not exist, ends
\* with the promise of runTool rejected.
C3_BadPathRejectsRun ==
  \A c \in CallIds :
    ( /\ pc[c] = "done"
      /\ Len(urls[c]) <= maxUrls
      /\ \E i \in 1..Len(urls[c]) :
           IsLocalPath(urls[c][i]) /\ (~WithinProject(urls[c][i]) \/ ~FileExists(urls[c][i])) )
      => outcome[c].status = "rejected"

\* C4: no open is ever issued for a URL that names a local file outside the
\* project root.
C4_NeverOpensOutsideFile ==
  \A c \in CallIds : \A k \in 1..Len(log[c]) :
    log[c][k].op = "open" => ~LocalOutside(log[c][k].url)

\* C5: when the open of some entry failed, the finished call has attempted
\* every entry and returned normally, with toolResponse 'Encountered K
\* error(s) while opening URLs...' where K is the number of entries that
\* failed.
C5_OpenFailureIsSoft ==
  \A c \in CallIds :
    (pc[c] = "done" /\ \E i \in 1..Len(urls[c]) : OpenFailed(c, i))
      => /\ outcome[c].status = "resolved"
         /\ \A i \in 1..Len(urls[c]) : Attempted(c, i) \/ isValidUrl(urls[c][i])
         /\ \A i \in 1..Len(urls[c]) : isValidUrl(urls[c][i]) => (EntryOpened(c, i) \/ OpenFailed(c, i))
         /\ outcome[c].toolResponse.form = "Encountered error(s)"
         /\ outcome[c].toolResponse.count =
              Cardinality({i \in 1..Len(urls[c]) : EntryFailed(c, i)})

\* The open of the first of several entries failed, a later entry was opened,
\* and the call has returned.
C5_Witness ==
  /\ pc[1] = "done"
  /\ Len(urls[1]) >= 3
  /\ OpenFailed(1, 1)
  /\ EntryOpened(1, 2)
  /\ OpenFailed(1, 3)
  /\ outcome[1].status = "resolved"

\* Item `item` of a per-item result list reports what happened to entry i.
ReportsEntry(item, c, i) ==
  \/ /\ item.kind = "opened"
     /\ EntryOpened(c, i)
     /\ item.url = (IF IsLocalPath(urls[c][i]) THEN FileUrl(urls[c][i]) ELSE urls[c][i])
  \/ /\ item.kind = "error"
     /\ EntryFailed(c, i)
     /\ item.url = urls[c][i]

PerItemInOrder(items, c) ==
  /\ Len(items) = Len(urls[c])
  /\ \A i \in 1..Len(items) : ReportsEntry(items[i], c, i)

\* C6: the toolResults a call returns for N entries has exactly N items and
\* item i reports the outcome of entry i, in the structured tool and in the
\* string-result tool alike.
C6_PerItemResultsInInputOrder ==
  \A c \in CallIds :
    outcome[c].status = "resolved"
      => /\ PerItemInOrder(outcome[c].toolResults, c)
         /\ PerItemInOrder(outcome[c].stringToolResults, c)

\* The declared types of the two tools' fields.
BrowserWellTyped(v) ==
  /\ v.t = "object"
  /\ "urls" \in DOMAIN v.fields
  /\ v.fields.urls.t = "array"
  /\ \A k \in 1..Len(v.fields.urls.items) : v.fields.urls.items[k].t = "string"
  /\ "browser" \in DOMAIN v.fields => v.fields.browser.t = "string"

SearchFieldTypes ==
  [contentPattern |-> "string", caseSensitive |-> "boolean", filePattern |-> "string",
   dateAfter |-> "string", dateBefore |-> "string", sizeMin |-> "number", sizeMax |-> "number"]

SearchWellTyped(v) ==
  /\ v.t = "object"
  /\ \A name \in DOMAIN v.fields \cap DOMAIN SearchFieldTypes :
       v.fields[name].t = SearchFieldTypes[name]

WellTyped(tool, v) == IF tool = "browser" THEN BrowserWellTyped(v) ELSE SearchWellTyped(v)

\* The urls list of a browser-open input is within the schema's maxItems.
WithinCap(tool, v) == tool = "browser" => Len(v.fields.urls.items) <= 6

\* C7 as stated: validateInput answers true for every input with the
\* required fields present and every supplied field of the declared type,
\* and false for every other input.
C7_TypedInputsAccepted ==
  vResult # "none" =>
    /\ WellTyped(vTool, vInput) => vResult = "true"
    /\ ~WellTyped(vTool, vInput) => vResult = "false"

\* C7 amended: validateInput answers true for every input with the required
\* fields present, every supplied field of the declared type and, for the
\* browser-open tool, at most 6 entries in urls; it answers false for every
\* input that lacks a required field or has a field of the wrong type, and
\* for a urls list of more than 6 entries.
C7_TypedAndCappedInputsAccepted ==
  vResult # "none" =>
    /\ (WellTyped(vTool, vInput) /\ WithinCap(vTool, vInput)) => vResult = "true"
    /\ ~WellTyped(vTool, vInput) => vResult = "false"
    /\ (WellTyped(vTool, vInput) /\ ~WithinCap(vTool, vInput)) => vResult = "false"

\* A well-typed browser-open input with exactly 6 urls and a browser was
\* accepted.
C7_Witness ==
  /\ vTool = "browser"
  /\ BrowserWellTyped(vInput)
  /\ Len(vInput.fields.urls.items) = 6
  /\ "browser" \in DOMAIN vInput.fields
  /\ vResult = "true"

\* C8: validateInput never throws: whatever the candidate input, a call ends
\* with the boolean true or false.
C8_ValidateNeverThrows == vResult \in {"none", "true", "false"}

\* validateInput answered false for null and for an object with a field of
\* the wrong type.
C8_Witness ==
  /\ vResult = "false"
  /\ \/ vInput = JNull
     \/ vInput.t = "object" /\ ~WellTyped(vTool, vInput)

\* The dates the search tool's description asks for (YYYY-MM-DD).
IsIsoDate(s) == s \in {"2024-01-01"}

\* C9: validateInput of the search tool answers false for every input whose
\* dateAfter is a string that is no YYYY-MM-DD date, and true for
\* {filePattern: '*.ts', contentPattern: 'function', caseSensitive: true}.
C9_SearchRejectsBadDate ==
  (vTool = "search" /\ vResult # "none") =>
    /\ ( /\ vInput.t = "object"
         /\ "dateAfter" \in DOMAIN vInput.fields
         /\ vInput.fields.dateAfter.t = "string"
         /\ ~IsIsoDate(vInput.fields.dateAfter.s) ) => vResult = "false"
    /\ vInput = JObj([filePattern |-> JStr("*.ts"), contentPattern |-> JStr("function"),
                      caseSensitive |-> JBool(TRUE)]) => vResult = "true"

\* bbResponse is an object carrying a data field.
CarriesData(v) == v.t = "object" /\ "data" \in DOMAIN v.fields

\* C10: formatLogEntryToolResult never throws, for either destination, and
\* for every resultContent whose bbResponse is not an object carrying a data
\* field (a string, null, undefined, any other shape) it returns the
\* error-styled entry whose preview is 'Error opening URLs'.
C10_FormatterNeverThrows ==
  fResult.status # "none" =>
    /\ fResult.status = "returned"
    /\ ~CarriesData(Get(fInput, "bbResponse")) =>
         /\ fResult.entry.subtitle = "Error"
         /\ fResult.entry.preview = "Error opening URLs"

\* The text formatted last is the toolResults of the finished runTool call.
FormattedRunResult ==
  /\ sEntry.status # "none"
  /\ sOutcome.status = "resolved"
  /\ sText = sOutcome.toolResults

\* C11: formatLogEntryToolResult of the search tool returns, for both
\* destinations, a preview with the number of matched files: 'Found 2 files'
\* for the text of the formatting test, and for a text produced by runTool
\* the number of files the search found, 0 included.
C11_PreviewCountsFiles ==
  sEntry.status # "none" =>
    /\ sEntry.status = "returned"
    /\ sText = TestResultText => sEntry.entry.preview = "Found 2 files"
    /\ FormattedRunResult =>
         sEntry.entry.preview = "Found " \o ToString(Len(sResult.files)) \o " files"

\* C12: when the search routine invoked by runTool fails with message M,
\* runTool fails with the message 'Error searching project: ' followed by M
\* and returns no result.
C12_SearchFailureIsPrefixed ==
  (sPc = "done" /\ sResult.kind = "rejected") =>
    sOutcome = [status |-> "rejected",
                error |-> "Error searching project: " \o sResult.message]

\* A call whose search routine failed has ended.
C12_Witness ==
  /\ sPc = "done"
  /\ sResult.kind = "rejected"
  /\ sResult.message = "invalid regex"
  /\ sOutcome.status = "rejected"

\* A field of the input is present; with nonEmpty, present and not the empty
\* string.
Supplied(input, name, nonEmpty) ==
  /\ name \in DOMAIN input.fields
  /\ nonEmpty => input.fields[name] # JStr("")

\* The routine a call has to invoke, by the presence of a content pattern.
RoutineFor(input, nonEmpty) ==
  IF Supplied(input, "contentPattern", nonEmpty)
    THEN <<"searchFilesContent">> ELSE <<"searchFilesMetadata">>

\* C13 as stated: each runTool call of the search tool invokes exactly one
\* search routine, the content search when the input has a content pattern
\* and the metadata-only search otherwise.
C13_OneRoutinePerCall ==
  /\ sPc \in {"idle", "search"} => sInvoked = <<>>
  /\ sPc \in {"settled", "done"} => sInvoked = RoutineFor(sInput, FALSE)

\* C13 amended: each runTool call of the search tool invokes exactly one
\* search routine, the content search when the input has a non-empty content
\* pattern and the metadata-only search otherwise, an empty content pattern
\* included.
C13_OneRoutinePerNonEmptyPattern ==
  /\ sPc \in {"idle", "search"} => sInvoked = <<>>
  /\ sPc \in {"settled", "done"} => sInvoked = RoutineFor(sInput, TRUE)

\* A finished call with a content pattern that ran the content search alone.
C13_Witness ==
  /\ sPc = "done"
  /\ Get(sInput, "contentPattern") = JStr("function")
  /\ sInvoked = <<"searchFilesContent">>

RECURSIVE JoinWith(_, _)
JoinWith(texts, sep) ==
  IF Len(texts) = 0 THEN ""
  ELSE IF Len(texts) = 1 THEN texts[1]
  ELSE texts[1] \o sep \o JoinWith(Tail(texts), sep)

\* The criteria an input supplies, as the summary has to name them.
NamedCriteria(input, nonEmpty) ==
  (IF Supplied(input, "contentPattern", nonEmpty)
     THEN <<"content pattern \"" \o input.fields.contentPattern.s \o "\"",
            IF "caseSensitive" \in DOMAIN input.fields /\ input.fields.caseSensitive.b
              THEN "case-sensitive" ELSE "case-insensitive">>
     ELSE <<>>)
  \o (IF Supplied(input, "filePattern", nonEmpty)
        THEN <<"file pattern \"" \o input.fields.filePattern.s \o "\"">> ELSE <<>>)
  \o (IF Supplied(input, "dateAfter", nonEmpty)
        THEN <<"modified after " \o input.fields.dateAfter.s>> ELSE <<>>)
  \o (IF Supplied(input, "dateBefore", nonEmpty)
        THEN <<"modified before " \o input.fields.dateBefore.s>> ELSE <<>>)
  \o (IF Supplied(input, "sizeMin", nonEmpty)
        THEN <<"minimum size " \o ToString(input.fields.sizeMin.n) \o " bytes">> ELSE <<>>)
  \o (IF Supplied(input, "sizeMax", nonEmpty)
        THEN <<"maximum size " \o ToString(input.fields.sizeMax.n) \o " bytes">> ELSE <<>>)

ExpectedResponse(input, n, nonEmpty) ==
  "Found " \o ToString(n) \o " files matching the search criteria: "
    \o JoinWith(NamedCriteria(input, nonEmpty), ", ")

\* C14 as stated: when the search routine does not fail, toolResponse is
\* 'Found N files matching the search criteria: C' with N the number of
\* files the routine returned and C naming exactly the criteria present in
\* the input.
C14_ResponseNamesCriteria ==
  (sPc = "done" /\ sResult.kind = "resolved") =>
    /\ sOutcome.status = "resolved"
    /\ sOutcome.toolResponse = ExpectedResponse(sInput, Len(sResult.files), FALSE)

\* C14 amended: when the search routine does not fail, toolResponse is
\* 'Found N files matching the search criteria: C' with N the number of
\* files the routine returned and C naming exactly the criteria present in
\* the input, a string criterion given as the empty string being left out
\* like an absent one.
C14_ResponseNamesNonEmptyCriteria ==
  (sPc = "done" /\ sResult.kind = "resolved") =>
    /\ sOutcome.status = "resolved"
    /\ sOutcome.toolResponse = ExpectedResponse(sInput, Len(sResult.files), TRUE)

\* A finished call that found two files for a content pattern without the
\* case flag and a minimum size of 0.
C14_Witness ==
  /\ sPc = "done"
  /\ sResult.kind = "resolved"
  /\ Len(sResult.files) = 2
  /\ sInput = JObj([contentPattern |-> JStr("function"), sizeMin |-> JNum(0)])
  /\ sOutcome.toolResponse =
       "Found 2 files matching the search criteria: content pattern \"function\", case-insensitive, minimum size 0 bytes"

\* n >= 1024^p for a byte count n = k * 1024^e.
AtLeastPow(b, p) ==
  \/ b.e >= p /\ b.k >= 1
  \/ b.e < p /\ b.k >= Pow1024[p - b.e]

\* The unit the thresholds give, as an index from 0 (B) to 3 (GB).
ThresholdUnit(b) ==
  IF ~AtLeastPow(b, 1) THEN 0
  ELSE IF ~AtLeastPow(b, 2) THEN 1
  ELSE IF ~AtLeastPow(b, 3) THEN 2
  ELSE 3

\* n / 1024^u rounded to one decimal, as whole part and tenth.
ScaledOneDecimal(b, u) ==
  IF b.e >= u THEN [whole |-> b.k * Pow1024[b.e - u], tenth |-> 0]
  ELSE LET D == Pow1024[u - b.e]
           t == (10 * (b.k % D) + (D \div 2)) \div D
       IN  IF t = 10 THEN [whole |-> (b.k \div D) + 1, tenth |-> 0]
           ELSE [whole |-> b.k \div D, tenth |-> t]

UnitNames == <<"B", "KB", "MB", "GB">>

PlainSizeText(b) ==
  LET u == ThresholdUnit(b)
      v == ScaledOneDecimal(b, u)
  IN  ToString(v.whole) \o "." \o ToString(v.tenth) \o " " \o UnitNames[u + 1]

GroupedSizeText(b) ==
  LET u == ThresholdUnit(b)
      v == ScaledOneDecimal(b, u)
  IN  Grouped(v.whole) \o "." \o ToString(v.tenth) \o " " \o UnitNames[u + 1]

DurationExpected(ms) ==
  LET d == ms \div 86400000
      h == ms \div 3600000
      m == ms \div 60000
      sec == ms \div 1000
  IN  IF d > 0 THEN ToString(d) \o "d " \o ToString(h % 24) \o "h"
      ELSE IF h > 0 THEN ToString(h) \o "h " \o ToString(m % 60) \o "m"
      ELSE IF m > 0 THEN ToString(m) \o "m " \o ToString(sec % 60) \o "s"
      ELSE ToString(sec) \o "s"

\* C16: formatDuration(ms), ms >= 0, renders the largest nonzero unit among
\* days, hours and minutes followed by the remainder in the next smaller
\* unit, and whole seconds alone below 60000; 59999 gives '59s', 60000 gives
\* '1m 0s', 3600000 gives '1h 0m', 86400000 gives '1d 0h'.
C16_DurationUnits ==
  hFn = "formatDuration" =>
    /\ hOut.text = DurationExpected(hArg.ms)
    /\ hArg.ms = 59999 => hOut.text = "59s"
    /\ hArg.ms = 60000 => hOut.text = "1m 0s"
    /\ hArg.ms = 3600000 => hOut.text = "1h 0m"
    /\ hArg.ms = 86400000 => hOut.text = "1d 0h"

\* One day exactly was rendered.
C16_Witness ==
  /\ hFn = "formatDuration"
  /\ hArg.ms = 86400000
  /\ hOut.text = "1d 0h"

\* The four units of a duration, largest first, each with its remainder.
UnitCounts(ms) ==
  <<[n |-> ms \div 86400000, unit |-> "d"],
    [n |-> (ms \div 3600000) % 24, unit |-> "h"],
    [n |-> (ms \div 60000) % 60, unit |-> "m"],
    [n |-> (ms \div 1000) % 60, unit |-> "s"]>>

RenderUnits(us) ==
  IF Len(us) = 1 THEN ToString(us[1].n) \o us[1].unit
  ELSE ToString(us[1].n) \o us[1].unit \o " " \o ToString(us[2].n) \o us[2].unit

\* The two largest nonzero units (one when only one is nonzero, seconds when
\* none is).
TwoLargestNonzero(ms) ==
  LET nz == SelectSeq(UnitCounts(ms), LAMBDA u : u.n > 0)
  IN  IF Len(nz) = 0 THEN <<[n |-> 0, unit |-> "s"]>>
      ELSE IF Len(nz) = 1 THEN nz
      ELSE SubSeq(nz, 1, 2)

\* C17 as stated: formatDuration emits only the two largest nonzero units
\* among days, hours, minutes and seconds, and seconds only under a minute.
C17_TwoLargestNonzeroUnits ==
  hFn = "formatDuration" => hOut.text = RenderUnits(TwoLargestNonzero(hArg.ms))

\* The largest nonzero unit among days, hours and minutes, as an index into
\* UnitCounts; 0 when the duration is under a minute.
LargestUnit(ms) ==
  IF UnitCounts(ms)[1].n > 0 THEN 1
  ELSE IF UnitCounts(ms)[2].n > 0 THEN 2
  ELSE IF UnitCounts(ms)[3].n > 0 THEN 3
  ELSE 0

\* C17 amended: formatDuration emits the largest nonzero unit among days,
\* hours and minutes followed by the next smaller unit, whether that one is
\* zero or not, and nothing below it; a duration under one minute renders as
\* seconds only.
C17_LargestUnitAndNextSmaller ==
  hFn = "formatDuration" =>
    LET i == LargestUnit(hArg.ms) IN
    /\ i = 0 => hOut.parts = <<UnitCounts(hArg.ms)[4]>>
    /\ i > 0 => hOut.parts = <<UnitCounts(hArg.ms)[i], UnitCounts(hArg.ms)[i + 1]>>
    /\ hOut.text = RenderUnits(hOut.parts)

\* Two days, 45 minutes and 12 seconds were rendered as days and zero hours.
C17_Witness ==
  /\ hFn = "formatDuration"
  /\ hArg.ms = 2 * 86400000 + 45 * 60000 + 12 * 1000 + 999
  /\ hOut.text = "2d 0h"

\* 'N unit ago' with the plural s exactly when N is not 1.
AgoText(n, unit) ==
  IF n = 1 THEN "1 " \o unit \o " ago" ELSE ToString(n) \o " " \o unit \o "s ago"

\* C18: formatTimeAgo returns 'just now' when d is below one minute, and
\* otherwise 'N unit(s) ago' for the largest of day, hour and minute whose
\* whole count N is at least 1, plural exactly when N is not 1.
C18_TimeAgoUnits ==
  hFn = "formatTimeAgo" =>
    LET d == hArg.diff IN
    /\ d < 60000 => hOut.text = "just now"
    /\ d >= 86400000 => hOut.text = AgoText(d \div 86400000, "day")
    /\ (d >= 3600000 /\ d < 86400000) => hOut.text = AgoText(d \div 3600000, "hour")
    /\ (d >= 60000 /\ d < 3600000) => hOut.text = AgoText(d \div 60000, "minute")

\* One hour exactly gave the singular, and two days the plural.
C18_Witness ==
  /\ hFn = "formatTimeAgo"
  /\ \/ hArg.diff = 3600000 /\ hOut.text = "1 hour ago"
     \/ hArg.diff = 2 * 86400000 + 999 /\ hOut.text = "2 days ago"

Presets == { <<"yes", "no">>, <<"enabled", "disabled">>, <<"included", "excluded">> }

SelectedWord(value, format) == IF value THEN format[1] ELSE format[2]

\* The general rule: split at the slash, select, upper-case.
SplitUppercaseSelect(value, format) == toUpperCase(SelectedWord(value, format))

\* C19 as stated: for a token with exactly one '/', formatBoolean selects
\* the word before the slash for true and the word after it for false, and
\* the three presets give the same text as the general split-and-uppercase-
\* select rule applied to the same token.
C19_PresetsFollowGeneralRule ==
  (hFn = "formatBoolean" /\ Len(hArg.format) = 2) =>
    /\ hOut.status = "returned"
    /\ toUpperCase(hOut.text) = toUpperCase(SelectedWord(hArg.value, hArg.format))
    /\ hArg.format \in Presets =>
         hOut.text = SplitUppercaseSelect(hArg.value, hArg.format)

\* The capitalised words of the presets.
PresetWord(word) ==
  CASE word = "yes" -> "Yes" [] word = "no" -> "No"
    [] word = "enabled" -> "Enabled" [] word = "disabled" -> "Disabled"
    [] word = "included" -> "Included" [] word = "excluded" -> "Excluded"

\* C19 amended: for a token with exactly one '/', formatBoolean selects the
\* word before the slash for true and the word after it for false; for the
\* presets 'yes/no', 'enabled/disabled' and 'included/excluded' it returns
\* that word capitalised ('Included', 'Excluded'), for every other token it
\* returns that word in upper case, so a preset differs from the general
\* rule in letter case only.
C19_PresetsCapitalisedOthersUppercase ==
  (hFn = "formatBoolean" /\ Len(hArg.format) = 2) =>
    /\ hOut.status = "returned"
    /\ hArg.format \in Presets =>
         /\ hOut.text = PresetWord(SelectedWord(hArg.value, hArg.format))
         /\ hOut.text # SplitUppercaseSelect(hArg.value, hArg.format)
         /\ toUpperCase(hOut.text) = SplitUppercaseSelect(hArg.value, hArg.format)
    /\ hArg.format \notin Presets =>
         hOut.text = SplitUppercaseSelect(hArg.value, hArg.format)

\* formatBoolean(true, 'included/excluded') gave 'Included'.
C19_Witness ==
  /\ hFn = "formatBoolean"
  /\ hArg = [value |-> TRUE, format |-> <<"included", "excluded">>]
  /\ hOut.text = "Included"

Settles(r) == r.op = "open" \/ ~r.ok

\* C22: within one runTool call the entries are worked on one at a time in
\* input order: the first operation is for entry 1, an operation for entry
\* i+1 follows only a record that settled entry i, no operation is issued
\* twice for an entry, and a call that returned has settled every one of
\* its N <= 6 entries exactly once, failures of earlier entries
\* notwithstanding.
C22_EntriesOneAtATimeInOrder ==
  \A c \in CallIds :
    /\ Len(log[c]) > 0 => log[c][1].i = 1
    /\ \A k \in 1..(Len(log[c]) - 1) :
         \/ log[c][k + 1].i = log[c][k].i /\ ~Settles(log[c][k])
         \/ log[c][k + 1].i = log[c][k].i + 1 /\ Settles(log[c][k])
    /\ \A k, m \in 1..Len(log[c]) :
         (log[c][k].i = log[c][m].i /\ log[c][k].op = log[c][m].op) => k = m
    /\ (pc[c] = "done" /\ outcome[c].status = "resolved") =>
         /\ Len(urls[c]) <= maxUrls
         /\ \A i \in 1..Len(urls[c]) :
              Cardinality({k \in 1..Len(log[c]) : log[c][k].i = i /\ Settles(log[c][k])}) = 1

\* A call with six entries has returned; its first entry failed and its
\* last entry was opened.
C22_Witness ==
  /\ pc[1] = "done"
  /\ outcome[1].status = "resolved"
  /\ Len(urls[1]) = maxUrls
  /\ EntryFailed(1, 1)
  /\ EntryOpened(1, maxUrls)

\* The k-th entry of call c, in input order, that failed.
KthFailed(c, k) ==
  CHOOSE i \in 1..Len(urls[c]) :
    /\ EntryFailed(c, i)
    /\ Cardinality({j \in 1..i : EntryFailed(c, j)}) = k

\* C23: in every result runTool returns for N entries, opensSuccess and
\* opensError together hold N items, every entry is either opened (one
\* opensSuccess item) or failed (one opensError item, naming it) and never
\* both, and toolResponse has the form 'Successfully opened N URL(s)'
\* exactly when opensError is empty.
C23_ListsAccountForEveryEntry ==
  \A c \in CallIds :
    (pc[c] = "done" /\ outcome[c].status = "resolved") =>
      LET data == outcome[c].bbResponse.data
          N == Len(urls[c])
      IN  /\ Len(data.opensSuccess) + Len(data.opensError) = N
          /\ \A i \in 1..N : EntryOpened(c, i) # EntryFailed(c, i)
          /\ Len(data.opensSuccess) = Cardinality({i \in 1..N : EntryOpened(c, i)})
          /\ Len(data.opensError) = Cardinality({i \in 1..N : EntryFailed(c, i)})
          /\ \A k \in 1..Len(data.opensError) :
               data.opensError[k].url = urls[c][KthFailed(c, k)]
          /\ (outcome[c].toolResponse.form = "Successfully opened") = (Len(data.opensError) = 0)
          /\ outcome[c].toolResponse.form = "Successfully opened" =>
               outcome[c].toolResponse.count = N

\* A call has returned a result with both opened and failed entries.
C23_Witness ==
  /\ pc[1] = "done"
  /\ outcome[1].status = "resolved"
  /\ Len(urls[1]) >= 3
  /\ Len(outcome[1].bbResponse.data.opensSuccess) >= 1
  /\ Len(outcome[1].bbResponse.data.opensError) >= 2

\* C24: for an input whose urls is a list of strings (and whose browser,
\* if present, is a string), validateInput answers true exactly when the
\* list has at most 6 entries, and that is exactly when runTool, given the
\* same input, gets past its cap check instead of failing with 'Too many
\* URLs'.
C24_SchemaCapIsRunCap ==
  (vResult # "none" /\ pc[1] \notin {"idle", "check"}) =>
    LET n == Len(vInput.fields.urls.items)
        tooMany == outcome[1] = [status |-> "rejected", error |-> "Too many URLs"]
    IN  /\ Len(urls[1]) = n
        /\ (vResult = "true") = (n <= 6)
        /\ (n <= 6) = ~tooMany
        /\ vResult \in {"true", "false"}

\* Both sides of the cap were exercised: an input of exactly 6 entries was
\* accepted and ran to its result.
C24_Witness ==
  /\ vResult = "true"
  /\ Len(urls[1]) = 6
  /\ pc[1] = "done"
  /\ outcome[1].status = "resolved"

\* The URLs an item of call c's result may name: its own entries, and the
\* file URLs its own local paths resolved to.
OwnUrls(c) ==
  {urls[c][i] : i \in 1..Len(urls[c])} \cup {FileUrl(urls[c][i]) : i \in 1..Len(urls[c])}

\* C25: when two runTool calls on one instance interleave at their
\* suspension points, the result of each call reports its own entries only:
\* toolResults has one item per own entry, in order, telling what happened
\* to that entry; opensSuccess and opensError hold as many items as own
\* entries were opened and failed, every item naming an own URL and the
\* call's own browser; and toolResponse counts own entries.
C25_CallsDoNotMix ==
  \A c \in CallIds :
    (pc[c] = "done" /\ outcome[c].status = "resolved") =>
      LET data == outcome[c].bbResponse.data
          N == Len(urls[c])
          failed == Cardinality({i \in 1..N : EntryFailed(c, i)})
          opened == Cardinality({i \in 1..N : EntryOpened(c, i)})
      IN  /\ PerItemInOrder(outcome[c].toolResults, c)
          /\ Len(data.opensSuccess) = opened
          /\ Len(data.opensError) = failed
          /\ \A k \in 1..Len(data.opensSuccess) :
               data.opensSuccess[k].url \in OwnUrls(c) /\ data.opensSuccess[k].browser = browser[c]
          /\ \A k \in 1..Len(data.opensError) : data.opensError[k].url \in OwnUrls(c)
          /\ outcome[c].toolResponse.count = (IF failed = 0 THEN N ELSE failed)
          /\ outcome[c].toolResponse.browser \in {browser[c], "n/a"}

\* Both calls have returned, the second having started while the first was
\* suspended; each had two entries, and each has an opened and a failed one.
C25_Witness ==
  \A c \in CallIds :
    /\ pc[c] = "done"
    /\ outcome[c].status = "resolved"
    /\ Len(urls[c]) = 2
    /\ Len(outcome[c].bbResponse.data.opensSuccess) = 1
    /\ Len(outcome[c].bbResponse.data.opensError) = 1

\* C26: an entry that formatLogEntryToolResult of the search tool returns
\* for the result text of a runTool call says 'Search completed with errors'
\* exactly when the search routine reported an error message, the preview
\* then counting that one message; a result without an error message is not
\* reported as having errors, whatever the search criteria say.
C26_ErrorsOnlyForErrorMessages ==
  (FormattedRunResult /\ sEntry.status = "returned") =>
    /\ (sEntry.entry.subtitle = "Search completed with errors") = Truthy(sResult.errorMessage)
    /\ Truthy(sResult.errorMessage) =>
         sEntry.entry.preview = "Search completed with 1 error(s)"

\* C27: the preview the console formatter of the string-result tool
\* derives from the toolResults text of a runTool call states that call's
\* counts: 'Encountered K error(s) while opening URLs' with K the number of
\* entries that failed when any failed, and otherwise 'Successfully opened
\* S URL(s)' with S the number of entries opened.
C27_StringPreviewCounts ==
  (fResult.status # "none" /\ fInput.t = "text") =>
    /\ fResult.status = "returned"
    /\ fResult.entry.preview =
         (IF Len(opensError[1]) > 0
            THEN "Encountered " \o ToString(Len(opensError[1])) \o " error(s) while opening URLs"
            ELSE "Successfully opened " \o ToString(Len(opensSuccess[1])) \o " URL(s)")

\* C28: formatBoolean returns a string, and does not throw, for both
\* boolean values and every format string, one without '/' included.
C28_FormatBooleanNeverThrows ==
  hFn = "formatBoolean" => hOut.status = "returned"

\* C29: for every byte count below 1024^3 the numeric part the size helper
\* renders, rounded to one decimal, is below 1024: the text is never
\* '1024.0' ('1,024.0' on the console) of B, KB or MB.
C29_RenderedValueBelow1024 ==
  (hFn = "size" /\ ~AtLeastPow(hArg.bytes, 3)) =>
    LET r == SizeLoop([k |-> hArg.bytes.k, e |-> hArg.bytes.e, den |-> 1], 0)
    IN  /\ OneDecimal(r.size).whole < 1024
        /\ hOut.text \notin {"1024.0 B", "1024.0 KB", "1024.0 MB",
                             "1,024.0 B", "1,024.0 KB", "1,024.0 MB"}

\* C30: for every byte count the console bytes helper and the browser bytes
\* helper render the same magnitude: whichever of the two was called, its
\* text is the unit and one-decimal value that each of them gives for the
\* count.
C30_BytesHelpersAgree ==
  hFn = "bytes" =>
    /\ hOut.text = consoleBytes(hArg.bytes)
    /\ hOut.text = createToolBytes(hArg.bytes)

====
